---- MODULE Spec2Model ----
(***************************************************************************)
(* The warehouse fleet dashboard's natural-language query engine           *)
(* (LocalAIEngine) as a state machine.                                     *)
(*                                                                         *)
(* A query string is modelled as the sequence of its whitespace-separated  *)
(* words.  A regular expression of the form /\b(w1|w2|...)\b/i is a test   *)
(* that one of the words (after lower-casing) is one of the alternatives;  *)
(* an alternative made of two words is a test on two neighbouring words.   *)
(* A message is the sequence of the pieces of its template literal.        *)
(***************************************************************************)
EXTENDS Integers, Sequences, FiniteSets, TLC

VARIABLES
    query,       \* the words of the query string handed to processQuery
    robots,      \* data.robots
    zones,       \* data.zones
    activities,  \* data.activities
    overview,    \* data.overview
    clock,       \* the wall clock, in minutes since midnight (new Date())
    result,      \* what the last processQuery call produced (NoResult before)
    activeData,  \* the dashboard's data views, as <<key, view>> pairs
    assistant,   \* the dashboard's last assistant chat message
    remote,      \* what a call of each remote model comes to, drawn when the server is asked
    messages,    \* the dashboard's chat: the messages of the user and of the assistant
    isProcessing, \* the dashboard's isProcessing flag
    storage,     \* the server's MemStorage: users, permissions, sessions
    request      \* the last request the server handled: its route and the role of req.user

vars == <<query, robots, zones, activities, overview, clock, result, activeData, assistant,
          remote, messages, isProcessing, storage, request>>

(***************************************************************************)
(* Bounds of the model.                                                    *)
(***************************************************************************)
MaxPhrases == 3
MaxClock == 1
\* the number of chat messages the model lets the dashboard hold
MaxMessages == 5

(***************************************************************************)
(* JavaScript values.                                                      *)
(***************************************************************************)
Null == "<null>"

\* `${v}` of a string-or-null value
Render(v) == IF v = Null THEN "null" ELSE v

\* String(n).padStart(2, '0')
PadStart2(n) == IF n >= 0 /\ n < 10 THEN "0" \o ToString(n) ELSE ToString(n)

\* Math.round(p / q) for q > 0: floor(p/q + 1/2)
Round(p, q) == (2 * p + q) \div (2 * q)

\* `${Math.round(p / q)}` with JavaScript's division by zero
RoundStr(p, q) ==
    IF q = 0 THEN (IF p = 0 THEN "NaN" ELSE IF p > 0 THEN "Infinity" ELSE "-Infinity")
    ELSE ToString(Round(p, q))

\* Math.ceil(p / q) for q > 0
Ceil(p, q) == -((-p) \div q)

Min(a, b) == IF a <= b THEN a ELSE b

(***************************************************************************)
(* Sequences (JavaScript arrays).                                          *)
(***************************************************************************)
RECURSIVE Flatten(_)
Flatten(ss) == IF ss = <<>> THEN <<>> ELSE Head(ss) \o Flatten(Tail(ss))

\* parts.join(sep), each part a sequence of pieces
RECURSIVE Join(_, _)
Join(ss, sep) ==
    IF ss = <<>> THEN <<>>
    ELSE IF Len(ss) = 1 THEN ss[1]
    ELSE ss[1] \o <<sep>> \o Join(Tail(ss), sep)

\* arr.filter(keep), keep given as the set of kept indices
RECURSIVE FilterIdx(_, _, _)
FilterIdx(arr, keep, i) ==
    IF i > Len(arr) THEN <<>>
    ELSE (IF i \in keep THEN <<arr[i]>> ELSE <<>>) \o FilterIdx(arr, keep, i + 1)

Filter(arr, keep) == FilterIdx(arr, keep, 1)

\* arr.slice(0, n)
Slice0(arr, n) == SubSeq(arr, 1, Min(IF n < 0 THEN 0 ELSE n, Len(arr)))

RECURSIVE Sum(_)
Sum(ns) == IF ns = <<>> THEN 0 ELSE Head(ns) + Sum(Tail(ns))

\* the order Array.prototype.sort (stable) gives to indices 1..n whose
\* comparator is the difference of the integer keys (ascending)
RECURSIVE SortIdx(_, _)
SortIdx(keys, n) ==
    IF n = 0 THEN <<>>
    ELSE LET prev == SortIdx(keys, n - 1)
             pos == Cardinality({j \in 1..(n - 1) : keys[prev[j]] <= keys[n]})
         IN  SubSeq(prev, 1, pos) \o <<n>> \o SubSeq(prev, pos + 1, n - 1)

StableSort(arr, keys) ==
    LET idx == SortIdx(keys, Len(arr)) IN [i \in 1..Len(arr) |-> arr[idx[i]]]

\* a variant: arr.sort(cmp) without the spread, which sorts the caller's array
InPlaceSort(arr, keys) == [orig |-> StableSort(arr, keys), work |-> StableSort(arr, keys)]

\* [...arr].sort(cmp): the copy is sorted, the array it was spread from is not
SpreadSort(arr, keys) == [orig |-> arr, work |-> StableSort(arr, keys)]

(***************************************************************************)
(* Words and conversions on them.                                          *)
(***************************************************************************)
\* String.prototype.toLowerCase on the words of the model
ToLowerCase(w) ==
    CASE w = "AMR" -> "amr"
      [] w = "Robot" -> "robot"
      [] w = "Zone" -> "zone"
      [] w = "A" -> "a"
      [] w = "B" -> "b"
      [] w = "C" -> "c"
      [] w = "D" -> "d"
      [] OTHER -> w

\* String.prototype.toUpperCase on a zone letter
ToUpperCase(w) ==
    CASE w = "a" -> "A"
      [] w = "b" -> "B"
      [] w = "c" -> "C"
      [] w = "d" -> "D"
      [] OTHER -> w

\* query.toLowerCase().trim(), word by word
Normalize(q) == [i \in 1..Len(q) |-> ToLowerCase(q[i])]

\* the digit strings of the model and parseInt of them
DigitWords == {"1", "2", "3", "5", "99"}
PercentWords == {"60%", "85%"}

ParseInt(w) ==
    CASE w = "1" -> 1
      [] w = "2" -> 2
      [] w = "3" -> 3
      [] w = "5" -> 5
      [] w = "99" -> 99
      [] w = "60%" -> 60
      [] w = "85%" -> 85

Includes(q, needle) ==
        \* query.includes(needle): the words that contain the needle
    LET Containing(needle0) ==
            CASE needle0 = "robots" -> {"robots"}
              [] needle0 = "robot" -> {"robot", "robots"}
              [] needle0 = "amrs" -> {"amrs"}
              [] needle0 = "amr" -> {"amr", "amrs"}
              [] needle0 = "zone" -> {"zone", "zones"}
              [] needle0 = "task" -> {"task", "tasks"}
              [] needle0 = "charging" -> {"charging"}
              [] needle0 = "forklift" -> {"forklift"}
              [] needle0 = "gripper" -> {"gripper"}
              [] needle0 = "conveyor" -> {"conveyor"}
              [] needle0 = "scanner" -> {"scanner"}
              [] needle0 = "lift" -> {"lift", "forklift"}
              [] needle0 = "arm" -> {"arm"}
              [] needle0 = "vacuum" -> {"vacuum"}
    IN
                       \E i \in 1..Len(q) : q[i] \in Containing(needle)

\* /\b(w1|w2|...)\b/i.test(q)
HasWord(q, ws) == \E i \in 1..Len(q) : ToLowerCase(q[i]) \in ws

\* /\b(a1|a2|...)\s+(b1|b2|...)\b/i.test(q)
HasPair(q, firsts, seconds) ==
    \E i \in 1..(Len(q) - 1) :
        ToLowerCase(q[i]) \in firsts /\ ToLowerCase(q[i + 1]) \in seconds

(***************************************************************************)
(* The detectors of LocalAIEngine: one per regular expression.             *)
(***************************************************************************)
\* /\b(amr|robot)\s*(\d+)\b/i: the positions of the matches
RobotIdMatches(q) ==
    {i \in 1..(Len(q) - 1) :
        ToLowerCase(q[i]) \in {"amr", "robot"} /\ q[i + 1] \in DigitWords \cup PercentWords}

robotIdPattern(q) == RobotIdMatches(q) # {}

\* /\bzone\s*([a-c])\b/i
ZoneIdMatches(q) ==
    {i \in 1..(Len(q) - 1) :
        ToLowerCase(q[i]) = "zone" /\ ToLowerCase(q[i + 1]) \in {"a", "b", "c"}}

zoneIdPattern(q) == ZoneIdMatches(q) # {}

\* the first match of a pattern: String.prototype.match without the g flag
FirstMatch(ms) == CHOOSE i \in ms : \A j \in ms : i <= j

maintenancePattern(q) ==
    HasWord(q, {"maintenance", "broken", "repair", "fix", "issue", "problem", "malfunction"})

batteryPattern(q) ==
    HasWord(q, {"battery", "charging", "energy", "power", "charge", "charged"})

statusPattern(q) ==
    HasWord(q, {"status", "state", "condition", "health", "operational", "functioning"})

locationPattern(q) ==
    HasWord(q, {"where", "location", "position", "find", "locate", "situated", "placed",
                "area", "coordinate", "coordinates"})

efficiencyPattern(q) ==
    HasWord(q, {"efficiency", "performance", "productivity", "effective", "output",
                "throughput", "production", "optimization"})

overviewPattern(q) ==
    HasWord(q, {"overview", "summary", "dashboard", "stats", "statistics", "brief",
                "snapshot", "overall", "general"})

toolPattern(q) ==
    HasWord(q, {"tool", "equipment", "attachment", "device", "implement", "accessory",
                "apparatus", "instrument"})

highestPattern(q) ==
    HasWord(q, {"highest", "best", "most", "top", "maximum", "peak", "leading",
                "superior", "optimal", "greatest"})

lowestPattern(q) ==
    HasWord(q, {"lowest", "worst", "least", "bottom", "minimum", "poorest", "weakest",
                "inferior", "suboptimal"})

idlePattern(q) ==
    HasWord(q, {"idle", "inactive", "available", "free", "unused", "standby", "waiting",
                "ready", "dormant"})

activePattern(q) ==
    \/ HasWord(q, {"active", "busy", "working", "engaged", "occupied", "operating",
                   "running", "functioning"})
    \/ HasPair(q, {"in"}, {"use"})

comparePattern(q) ==
    HasWord(q, {"compare", "comparison", "versus", "vs", "contrast", "difference",
                "differential", "evaluate", "against", "between"})

AllWords == {"all", "every", "list", "show", "display", "each", "present", "total",
             "full", "entire"}

allRobotsPattern(q) == HasPair(q, AllWords, {"robots", "amrs", "machines", "units", "devices"})

allZonesPattern(q) ==
    HasPair(q, AllWords, {"zones", "areas", "sections", "sectors", "regions", "locations"})

countPattern(q) ==
    \/ HasWord(q, {"count", "quantity", "sum", "tally", "enumerate", "calculate", "measure"})
    \/ HasPair(q, {"how"}, {"many"})
    \/ HasPair(q, {"total"}, {"number"})

priorityPattern(q) ==
    HasWord(q, {"priority", "important", "critical", "urgent", "crucial", "essential",
                "vital", "significance", "key", "main"})

trafficPattern(q) ==
    HasWord(q, {"traffic", "congestion", "flow", "movement", "density", "crowded", "busy",
                "passage", "circulation", "transit"})

deploymentPattern(q) ==
    HasWord(q, {"deploy", "assign", "send", "allocate", "dispatch", "direct", "relocate",
                "move", "transfer"})

redistributePattern(q) ==
    \/ HasWord(q, {"redistribute", "reallocate", "reassign", "balance", "equilibrium",
                   "rebalance"})
    \/ HasPair(q, {"even"}, {"out"})

optimizePattern(q) ==
    HasWord(q, {"optimize", "improve", "enhance", "boost", "maximize", "augment", "upgrade",
                "streamline", "refine"})

forecastPattern(q) ==
    HasWord(q, {"forecast", "predict", "projection", "future", "anticipate", "estimate",
                "foresee", "outlook", "prospect"})

trendPattern(q) ==
    HasWord(q, {"trend", "pattern", "tendency", "direction", "progression", "development",
                "evolution", "course"})

utilizationPattern(q) ==
    HasWord(q, {"utilization", "usage", "consumption", "employ", "use", "application",
                "exploitation"})

capacityPattern(q) ==
    HasWord(q, {"capacity", "capability", "potential", "volume", "throughput", "output",
                "productivity", "yield"})

schedulePattern(q) ==
    HasWord(q, {"schedule", "plan", "timetable", "agenda", "calendar", "program",
                "arrangement", "itinerary"})

(***************************************************************************)
(* isComplexQuery: the number of patterns that match, and the threshold.   *)
(***************************************************************************)
B2N(b) == IF b THEN 1 ELSE 0

\* a variant: the count without the two identifier patterns
patternCountKeywords(q) ==
    B2N(batteryPattern(q)) + B2N(efficiencyPattern(q)) + B2N(maintenancePattern(q))
    + B2N(toolPattern(q)) + B2N(statusPattern(q)) + B2N(priorityPattern(q))
    + B2N(trafficPattern(q)) + B2N(comparePattern(q))

patternCount(q) ==
    B2N(robotIdPattern(q)) + B2N(zoneIdPattern(q)) + B2N(batteryPattern(q))
    + B2N(efficiencyPattern(q)) + B2N(maintenancePattern(q)) + B2N(toolPattern(q))
    + B2N(statusPattern(q)) + B2N(priorityPattern(q)) + B2N(trafficPattern(q))
    + B2N(comparePattern(q))

ComplexThreshold == 3

\* a variant: patternCount > 3
isComplexQueryAbove(q) == patternCount(q) > ComplexThreshold

isComplexQuery(q) == patternCount(q) >= ComplexThreshold


(***************************************************************************)
(* The result of a call: {message, response}, or a thrown TypeError.       *)
(* "handler" names the method processQuery dispatched to and "snapshot" is *)
(* the data the caller holds after the call.                               *)
(***************************************************************************)
NoData == [kind |-> "null", items |-> <<>>]
OneRobot(r) == [kind |-> "robot", items |-> <<r>>]
OneZone(z) == [kind |-> "zone", items |-> <<z>>]
RobotList(rs) == [kind |-> "robots", items |-> rs]
ZoneList(zs) == [kind |-> "zones", items |-> zs]
OverviewData(o) == [kind |-> "overview", items |-> <<o>>]

NoMeta == [secondaryData |-> <<>>, chartData |-> <<>>, metricName |-> "",
           comparisonType |-> ""]

Reply(h, d, msg, title, data, type, meta) ==
    [handler |-> h, thrown |-> FALSE, message |-> msg,
     response |-> [title |-> title, data |-> data, type |-> type, metadata |-> meta],
     snapshot |-> d]

\* reading a property of undefined, or calling a method of null
Throw(h, d) ==
    [handler |-> h, thrown |-> TRUE, message |-> <<>>,
     response |-> [title |-> <<>>, data |-> NoData, type |-> "", metadata |-> NoMeta],
     snapshot |-> d]

\* obj[key] = value on an object kept as its <<key, value>> pairs in insertion order
ObjSet(obj, key, value) ==
    IF \E i \in 1..Len(obj) : obj[i][1] = key
    THEN [i \in 1..Len(obj) |-> IF obj[i][1] = key THEN <<key, value>> ELSE obj[i]]
    ELSE Append(obj, <<key, value>>)

ObjHas(obj, key) == \E i \in 1..Len(obj) : obj[i][1] = key

\* obj[key] of a key the object has
ObjGet(obj, key) == obj[CHOOSE i \in 1..Len(obj) : obj[i][1] = key][2]

\* {...a, ...b}
RECURSIVE ObjSpread(_, _)
ObjSpread(a, b) ==
    IF b = <<>> THEN a ELSE ObjSpread(ObjSet(a, b[1][1], b[1][2]), Tail(b))

\* `AMR ${String(id).padStart(2, '0')}` and `AMR ${id}`
AmrPadded(id) == "AMR " \o PadStart2(id)
AmrPlain(id) == "AMR " \o ToString(id)

(***************************************************************************)
(* WarehouseDataManager's lookups, bound into the data by handleAIQuery.   *)
(***************************************************************************)
\* Array.prototype.find
HasRobot(d, id) == \E i \in 1..Len(d.robots) : d.robots[i].id = id

getRobotById(d, id) ==
    d.robots[CHOOSE i \in 1..Len(d.robots) :
                /\ d.robots[i].id = id
                /\ \A j \in 1..(i - 1) : d.robots[j].id # id]

HasZone(d, id) == \E i \in 1..Len(d.zones) : d.zones[i].id = id

getZoneById(d, id) ==
    d.zones[CHOOSE i \in 1..Len(d.zones) :
               /\ d.zones[i].id = id
               /\ \A j \in 1..(i - 1) : d.zones[j].id # id]

\* a count that looks for 'working' where the engine looks for 'active'
CountStatusWorking(rs, st) ==
    Cardinality({i \in 1..Len(rs) : rs[i].status = IF st = "active" THEN "working" ELSE st})

\* robots.filter(r => r.status === st).length and friends
CountStatus(rs, st) == Cardinality({i \in 1..Len(rs) : rs[i].status = st})
CountInZone(rs, zid) == Cardinality({i \in 1..Len(rs) : rs[i].zoneId = zid})
CountPriority(zs, p) == Cardinality({i \in 1..Len(zs) : zs[i].priority = p})
CountTraffic(zs, t) == Cardinality({i \in 1..Len(zs) : zs[i].trafficDensity = t})

RobotsWithStatus(rs, st) == Filter(rs, {i \in 1..Len(rs) : rs[i].status = st})
RobotsInZone(rs, zid) == Filter(rs, {i \in 1..Len(rs) : rs[i].zoneId = zid})

\* arr.map(f) for the few projections the handlers use
Names(zs) == [i \in 1..Len(zs) |-> <<zs[i].name>>]
PlainIds(rs) == [i \in 1..Len(rs) |-> <<AmrPlain(rs[i].id)>>]
TasksPendingOf(zs) == [i \in 1..Len(zs) |-> zs[i].tasksPending]
RobotCountOf(zs) == [i \in 1..Len(zs) |-> zs[i].robotCount]
BatteryOf(rs) == [i \in 1..Len(rs) |-> rs[i].batteryLevel]
EfficiencyOf(rs) == [i \in 1..Len(rs) |-> rs[i].efficiency]
Negated(ns) == [i \in 1..Len(ns) |-> 0 - ns[i]]

\* `working on ${task}` or 'not assigned any tasks'
TaskPhrase(r) ==
    IF r.currentTask # Null THEN <<"working on ", r.currentTask>>
    ELSE <<"not assigned any tasks">>

getBatteryStatusDescription(level) ==
    IF level < 10 THEN "The battery is critically low and requires immediate charging."
    ELSE IF level < 30 THEN "The battery is running low and should be charged soon."
    ELSE IF level < 60 THEN "The battery level is moderate."
    ELSE IF level < 80 THEN "The battery level is good."
    ELSE "The battery is nearly full."

(***************************************************************************)
(* handleRobotQuery                                                        *)
(***************************************************************************)
handleRobotQuery(q, d) ==
    LET h == "handleRobotQuery"
        robotId == ParseInt(q[FirstMatch(RobotIdMatches(q)) + 1])
    IN
    IF ~HasRobot(d, robotId) THEN
        Reply(h, d,
              <<"I couldn't find ", AmrPlain(robotId),
                " in the system. Please check the ID and try again.">>,
              <<"Robot Not Found">>, NoData, "error", NoMeta)
    ELSE
    LET robot == getRobotById(d, robotId)
        amr == AmrPadded(robotId)
    IN
    IF locationPattern(q) THEN
        Reply(h, d,
              <<amr, " is currently located in ", robot.zoneId, " at coordinates (",
                ToString(robot.coordinates.x), ", ", ToString(robot.coordinates.y), ").">>,
              <<amr, " Location">>, OneRobot(robot), "robot", NoMeta)
    ELSE IF statusPattern(q) THEN
        Reply(h, d,
              <<amr, " is currently ", robot.status, ". It has a battery level of ",
                ToString(robot.batteryLevel), "% and is ">> \o TaskPhrase(robot) \o <<".">>,
              <<amr, " Status">>, OneRobot(robot), "robot", NoMeta)
    ELSE IF batteryPattern(q) THEN
        Reply(h, d,
              <<amr, " currently has a battery level of ", ToString(robot.batteryLevel),
                "%. ", getBatteryStatusDescription(robot.batteryLevel)>>,
              <<amr, " Battery">>, OneRobot(robot), "robot", NoMeta)
    ELSE IF toolPattern(q) THEN
        Reply(h, d,
              <<amr, " is currently equipped with the ", Render(robot.currentTool),
                " tool and is ",
                IF robot.status = "active" THEN "actively using it for"
                ELSE "assigned to use it for",
                " ", Render(robot.currentTask), ".">>,
              <<amr, " Equipment">>, OneRobot(robot), "robot", NoMeta)
    ELSE
        Reply(h, d,
              <<amr, " is a ", robot.status, " robot in ", robot.zoneId,
                ". It has a battery level of ", ToString(robot.batteryLevel),
                "% and is currently ">> \o TaskPhrase(robot) \o <<".">>,
              <<amr, " Information">>, OneRobot(robot), "robot", NoMeta)

(***************************************************************************)
(* handleZoneQuery                                                         *)
(***************************************************************************)
\* a variant: `Zone ${match[1]}`, the letter as it stands in the normalized query
ZoneIdOfRaw(q) == "Zone " \o q[FirstMatch(ZoneIdMatches(q)) + 1]

\* `Zone ${match[1].toUpperCase()}`
ZoneIdOf(q) == "Zone " \o ToUpperCase(q[FirstMatch(ZoneIdMatches(q)) + 1])

handleZoneQuery(q, d) ==
    LET h == "handleZoneQuery"
        zoneId == ZoneIdOf(q)
    IN
    IF ~HasZone(d, zoneId) THEN
        Reply(h, d,
              <<"I couldn't find ", zoneId, " in the system. Available zones are ",
                "Zone A", ", ", "Zone B", ", and ", "Zone C", ".">>,
              <<"Zone Not Found">>, NoData, "error", NoMeta)
    ELSE
    LET zone == getZoneById(d, zoneId)
        zoneRobots == RobotsInZone(d.robots, zoneId)
        robotInfo ==
            IF Len(zoneRobots) > 0
            THEN <<"There are ", ToString(Len(zoneRobots)), " AMRs in this zone: ">>
                 \o Join(PlainIds(zoneRobots), ", ") \o <<".">>
            ELSE <<"There are currently no AMRs operating in this zone.">>
    IN
    IF robotIdPattern(q) \/ Includes(q, "robots") \/ Includes(q, "amrs") THEN
        Reply(h, d,
              <<zoneId, " currently has ", ToString(zone.robotCount), " active AMRs. ">>
              \o robotInfo
              \o <<" The zone has ", ToString(zone.tasksPending), " pending tasks and ",
                   ToString(zone.tasksCompleted), " completed tasks.">>,
              <<zoneId, " Robots">>, OneZone(zone), "zone", NoMeta)
    ELSE IF efficiencyPattern(q) THEN
        Reply(h, d,
              <<zoneId, " is currently operating at ", ToString(zone.efficiency),
                "% efficiency. This zone has a ", zone.trafficDensity,
                " traffic density and ", ToString(zone.tasksPending), " pending tasks.">>,
              <<zoneId, " Efficiency">>, OneZone(zone), "zone", NoMeta)
    ELSE
        Reply(h, d,
              <<zoneId, " is a ", zone.priority, " priority zone with ",
                ToString(zone.robotCount), " active AMRs. The zone has ",
                ToString(zone.tasksPending), " pending tasks, ",
                ToString(zone.tasksCompleted), " completed tasks, and is operating at ",
                ToString(zone.efficiency), "% efficiency with ", zone.trafficDensity,
                " traffic density.">>,
              <<zoneId, " Status">>, OneZone(zone), "zone", NoMeta)

(***************************************************************************)
(* handleOverviewQuery                                                     *)
(***************************************************************************)
StatusChart(rs) ==
    << <<"Active", CountStatus(rs, "active")>>, <<"Idle", CountStatus(rs, "idle")>>,
       <<"Charging", CountStatus(rs, "charging")>>,
       <<"Maintenance", CountStatus(rs, "maintenance")>> >>

handleOverviewQuery(q, d) ==
    LET o == d.overview
        totalPendingTasks == Sum(TasksPendingOf(d.zones))
        insights ==
            << <<ToString(o.activeRobots), " out of ", ToString(o.totalRobots),
                 " AMRs are currently active">>,
               <<"Overall warehouse efficiency is at ", ToString(o.robotEfficiency), "%">>,
               <<ToString(totalPendingTasks), " tasks are currently pending across all zones">>,
               <<ToString(CountTraffic(d.zones, "high")), " zones have high traffic density">>,
               <<ToString(CountStatus(d.robots, "maintenance")),
                 " AMRs are currently in maintenance">> >>
    IN
    Reply("handleOverviewQuery", d,
          <<"The warehouse currently has ", ToString(o.activeRobots),
            " active AMRs out of a total of ", ToString(o.totalRobots),
            ". The overall robot efficiency is ", ToString(o.robotEfficiency), "% with ",
            ToString(o.tasksCompleted), " tasks completed today.">>,
          <<"Warehouse Overview">>, OverviewData(o), "overview",
          [NoMeta EXCEPT !.secondaryData = insights, !.chartData = StatusChart(d.robots)])

(***************************************************************************)
(* handleEfficiencyQuery                                                   *)
(***************************************************************************)
\* arr.reduce((result, x) => { result[key] = value; return result }, {})
ObjFrom(pairs) == ObjSpread(<<>>, pairs)

handleEfficiencyQuery(q, d) ==
    LET EfficientZoneReply(h, d0, sorted, word, title) ==
            IF Len(sorted) = 0 THEN Throw(h, d0)
            ELSE LET z == sorted[1] IN
                 Reply(h, d0,
                       <<"The ", word, " efficient zone is ", z.name,
                         " with an efficiency rating of ", ToString(z.efficiency),
                         "%. It has ", ToString(z.robotCount), " active AMRs and ",
                         ToString(z.tasksPending), " pending tasks.">>,
                       <<title>>, OneZone(z), "zone", NoMeta)
    IN
    LET EfficientRobotReply(h, d0, sorted, word, title) ==
            IF Len(sorted) = 0 THEN Throw(h, d0)
            ELSE LET r == sorted[1] IN
                 Reply(h, d0,
                       <<"The ", word, " efficient robot is ", AmrPlain(r.id),
                         " with an efficiency rating of ", ToString(r.efficiency),
                         "%. It's currently ", r.status, " in ", r.zoneId, ".">>,
                       <<title>>, OneRobot(r), "robot", NoMeta)
    IN
    LET ZoneEfficiencyPairs(zs) == [i \in 1..Len(zs) |-> <<zs[i].name, zs[i].efficiency>>]
    IN
    LET RobotEfficiencyPairs(rs) == [i \in 1..Len(rs) |-> <<AmrPlain(rs[i].id), rs[i].efficiency>>]
    IN
    LET h == "handleEfficiencyQuery"
        aboutRobots == Includes(q, "robot") \/ Includes(q, "amr")
        robotsDesc == SpreadSort(d.robots, Negated(EfficiencyOf(d.robots)))
        robotsAsc == SpreadSort(d.robots, EfficiencyOf(d.robots))
        zonesDesc == SpreadSort(d.zones, Negated(EfficiencyOf(d.zones)))
        zonesAsc == SpreadSort(d.zones, EfficiencyOf(d.zones))
    IN
    IF highestPattern(q) /\ aboutRobots THEN
        EfficientRobotReply(h, [d EXCEPT !.robots = robotsDesc.orig], robotsDesc.work,
                            "most", "Most Efficient Robot")
    ELSE IF lowestPattern(q) /\ aboutRobots THEN
        EfficientRobotReply(h, [d EXCEPT !.robots = robotsAsc.orig], robotsAsc.work,
                            "least", "Least Efficient Robot")
    ELSE IF highestPattern(q) /\ Includes(q, "zone") THEN
        EfficientZoneReply(h, [d EXCEPT !.zones = zonesDesc.orig], zonesDesc.work,
                           "most", "Most Efficient Zone")
    ELSE IF lowestPattern(q) /\ Includes(q, "zone") THEN
        EfficientZoneReply(h, [d EXCEPT !.zones = zonesAsc.orig], zonesAsc.work,
                           "least", "Least Efficient Zone")
    ELSE
    LET d2 == [d EXCEPT !.robots = robotsDesc.orig, !.zones = zonesDesc.orig]
        sortedRobots == robotsDesc.work
        sortedZones == zonesDesc.work
        topRobots == ObjFrom(RobotEfficiencyPairs(Slice0(sortedRobots, 5)))
        topZones == ObjFrom(ZoneEfficiencyPairs(sortedZones))
    IN
    IF Len(sortedZones) = 0 \/ Len(sortedRobots) = 0 THEN Throw(h, d2)
    ELSE
        Reply(h, d2,
              <<"The overall warehouse efficiency is ", ToString(d.overview.robotEfficiency),
                "%. The most efficient zone is ", sortedZones[1].name, " at ",
                ToString(sortedZones[1].efficiency), "% and the most efficient AMR is ",
                AmrPlain(sortedRobots[1].id), " at ", ToString(sortedRobots[1].efficiency),
                "%.">>,
              <<"Efficiency Analysis">>, RobotList(sortedRobots), "comparison",
              [NoMeta EXCEPT !.comparisonType = "Efficiency", !.metricName = "Efficiency",
                             !.chartData = ObjSpread(topRobots, topZones)])

(***************************************************************************)
(* handleStatusQuery                                                       *)
(***************************************************************************)
handleStatusQuery(q, d) ==
    LET h == "handleStatusQuery"
        idleRobots == RobotsWithStatus(d.robots, "idle")
        activeRobots == RobotsWithStatus(d.robots, "active")
    IN
    IF idlePattern(q) THEN
        IF Len(idleRobots) = 0 THEN
            Reply(h, d,
                  <<"There are currently no idle AMRs in the warehouse. All robots are actively engaged in tasks.">>,
                  <<"Idle AMRs">>, NoData, "error", NoMeta)
        ELSE
            Reply(h, d,
                  <<"There are ", ToString(Len(idleRobots)), " idle AMRs in the warehouse. ",
                    AmrPlain(idleRobots[1].id), " is currently idle in ",
                    idleRobots[1].zoneId, ".">>,
                  <<"Idle AMR Status">>, OneRobot(idleRobots[1]), "robot", NoMeta)
    ELSE IF activePattern(q) THEN
        IF Len(activeRobots) = 0 THEN
            Reply(h, d,
                  <<"There are currently no active AMRs in the warehouse. Most robots may be charging or in maintenance.">>,
                  <<"Active AMRs">>, NoData, "error", NoMeta)
        ELSE
            Reply(h, d,
                  <<"There are ", ToString(Len(activeRobots)),
                    " active AMRs in the warehouse. ", AmrPlain(activeRobots[1].id),
                    " is currently active in ", activeRobots[1].zoneId, ", working on ",
                    Render(activeRobots[1].currentTask), ".">>,
                  <<"Active AMR Status">>, OneRobot(activeRobots[1]), "robot", NoMeta)
    ELSE
        Reply(h, d,
              <<"The warehouse currently has ", ToString(d.overview.activeRobots),
                " active AMRs out of ", ToString(d.overview.totalRobots), " total. ",
                ToString(CountStatus(d.robots, "charging")), " are charging, ",
                ToString(CountStatus(d.robots, "maintenance")), " are in maintenance, and ",
                ToString(CountStatus(d.robots, "idle")), " are idle.">>,
              <<"AMR Status Overview">>, RobotList(d.robots), "multi-robot",
              [NoMeta EXCEPT !.metricName = "Status Distribution",
                             !.chartData = StatusChart(d.robots)])

(***************************************************************************)
(* handleMaintenanceQuery                                                  *)
(***************************************************************************)
\* a variant: the maintenance answer typed 'maintenance' instead of 'robot'
handleMaintenanceQueryTyped(q, d) ==
    LET h == "handleMaintenanceQuery"
        maintenanceRobots == RobotsWithStatus(d.robots, "maintenance")
    IN
    IF Len(maintenanceRobots) = 0 THEN
        Reply(h, d,
              <<"There are currently no AMRs in maintenance. All robots are operational.">>,
              <<"Maintenance Status">>, NoData, "error", NoMeta)
    ELSE
        Reply(h, d,
              <<"There are ", ToString(Len(maintenanceRobots)),
                " AMRs currently undergoing maintenance. ",
                AmrPlain(maintenanceRobots[1].id), " is in maintenance in ",
                maintenanceRobots[1].zoneId, ".">>,
              <<"Maintenance Status">>, OneRobot(maintenanceRobots[1]), "maintenance", NoMeta)

handleMaintenanceQuery(q, d) ==
    LET h == "handleMaintenanceQuery"
        maintenanceRobots == RobotsWithStatus(d.robots, "maintenance")
    IN
    IF Len(maintenanceRobots) = 0 THEN
        Reply(h, d,
              <<"There are currently no AMRs in maintenance. All robots are operational.">>,
              <<"Maintenance Status">>, NoData, "error", NoMeta)
    ELSE
        Reply(h, d,
              <<"There are ", ToString(Len(maintenanceRobots)),
                " AMRs currently undergoing maintenance. ",
                AmrPlain(maintenanceRobots[1].id), " is in maintenance in ",
                maintenanceRobots[1].zoneId, ".">>,
              <<"Maintenance Status">>, OneRobot(maintenanceRobots[1]), "robot", NoMeta)

(***************************************************************************)
(* handleBatteryQuery                                                      *)
(***************************************************************************)

handleBatteryQuery(q, d) ==
    LET batteryLevels(rs) ==
            LET CountBattery(rs0, lo, hi) ==
                    Cardinality({i \in 1..Len(rs0) : rs0[i].batteryLevel >= lo /\ rs0[i].batteryLevel < hi})
            IN
            << <<"Critical (0-20%)", Cardinality({i \in 1..Len(rs) : rs[i].batteryLevel < 20})>>,
               <<"Low (20-40%)", CountBattery(rs, 20, 40)>>,
               <<"Medium (40-60%)", CountBattery(rs, 40, 60)>>,
               <<"Good (60-80%)", CountBattery(rs, 60, 80)>>,
               <<"Full (80-100%)", Cardinality({i \in 1..Len(rs) : rs[i].batteryLevel >= 80})>> >>
    IN
    LET h == "handleBatteryQuery"
        batteryAsc == SpreadSort(d.robots, BatteryOf(d.robots))
        batteryDesc == SpreadSort(d.robots, Negated(BatteryOf(d.robots)))
        chargingRobots == RobotsWithStatus(d.robots, "charging")
    IN
    IF lowestPattern(q) THEN
        LET d1 == [d EXCEPT !.robots = batteryAsc.orig] IN
        IF Len(batteryAsc.work) = 0 THEN Throw(h, d1)
        ELSE LET lowestBatteryRobot == batteryAsc.work[1] IN
             Reply(h, d1,
                   <<AmrPlain(lowestBatteryRobot.id), " has the lowest battery at ",
                     ToString(lowestBatteryRobot.batteryLevel), "%. ",
                     getBatteryStatusDescription(lowestBatteryRobot.batteryLevel)>>,
                   <<"Lowest Battery AMR">>, OneRobot(lowestBatteryRobot), "robot", NoMeta)
    ELSE IF Includes(q, "charging") THEN
        IF Len(chargingRobots) = 0 THEN
            Reply(h, d,
                  <<"There are currently no AMRs charging. All robots are either active, idle, or in maintenance.">>,
                  <<"Charging Status">>, NoData, "error", NoMeta)
        ELSE
            Reply(h, d,
                  <<"There are ", ToString(Len(chargingRobots)), " AMRs currently charging. ",
                    AmrPlain(chargingRobots[1].id), " is charging in ",
                    chargingRobots[1].zoneId, " at ",
                    ToString(chargingRobots[1].batteryLevel), "%.">>,
                  <<"Charging Status">>, OneRobot(chargingRobots[1]), "robot", NoMeta)
    ELSE
        Reply(h, [d EXCEPT !.robots = batteryDesc.orig],
              <<"The average battery level across all AMRs is ",
                RoundStr(Sum(BatteryOf(d.robots)), Len(d.robots)), "%. There are ",
                ToString(Cardinality({i \in 1..Len(d.robots) : d.robots[i].batteryLevel < 20})),
                " robots with critical battery levels (below 20%).">>,
              <<"Battery Overview">>, RobotList(batteryDesc.work), "multi-robot",
              [NoMeta EXCEPT !.metricName = "Battery Levels",
                             !.chartData = batteryLevels(d.robots)])

(***************************************************************************)
(* handleMultiRobotLocationQuery                                           *)
(***************************************************************************)

handleMultiRobotLocationQuery(q, d) ==
    LET ZoneDistributionText(zs, rs) ==
            [i \in 1..Len(zs) |-> <<zs[i].name, ": ", ToString(CountInZone(rs, zs[i].id)), " AMRs">>]
    IN
    LET ZoneDistributionPairs(zs, rs) == [i \in 1..Len(zs) |-> <<zs[i].name, CountInZone(rs, zs[i].id)>>]
    IN
    LET GroupSizes(gs) == [i \in 1..Len(gs) |-> Len(gs[i].robots)]
    IN
        \* zones.map(zone => ({zone, robots: robots.filter(r => r.zoneId === zone.id)}))
    LET GroupByZone(zs, rs) == [i \in 1..Len(zs) |-> [zone |-> zs[i], robots |-> RobotsInZone(rs, zs[i].id)]]
    IN
    LET h == "handleMultiRobotLocationQuery"
        robotsByZone == GroupByZone(d.zones, d.robots)
        sortedGroups == StableSort(robotsByZone, Negated(GroupSizes(robotsByZone)))
    IN
    IF Len(sortedGroups) = 0 THEN Throw(h, d)
    ELSE
        Reply(h, d,
              <<"Most AMRs are currently in ", sortedGroups[1].zone.name, " (",
                ToString(Len(sortedGroups[1].robots)), " robots). ">>
              \o Join(ZoneDistributionText(d.zones, d.robots), ", ") \o <<".">>,
              <<"Robot Locations">>, RobotList(d.robots), "multi-robot",
              [NoMeta EXCEPT !.metricName = "Zone Distribution",
                             !.chartData = ObjFrom(ZoneDistributionPairs(d.zones, d.robots))])

(***************************************************************************)
(* handleComplexQuery                                                      *)
(***************************************************************************)
\* a line break; a message keeps each one as a piece of its own
NL == "\n"

\* message.trim(): the pieces of a message start and end with text, except
\* for line breaks at the end
RECURSIVE Trim(_)
Trim(msg) ==
    IF msg # <<>> /\ msg[Len(msg)] = NL THEN Trim(SubSeq(msg, 1, Len(msg) - 1)) ELSE msg

\* message.split('\n\n')
RECURSIVE SplitFrom(_, _)
SplitFrom(msg, cur) ==
    IF msg = <<>> THEN <<cur>>
    ELSE IF Len(msg) >= 2 /\ msg[1] = NL /\ msg[2] = NL
         THEN <<cur>> \o SplitFrom(SubSeq(msg, 3, Len(msg)), <<>>)
         ELSE SplitFrom(Tail(msg), Append(cur, msg[1]))

\* the first tool term the query includes, or the default
FirstToolTerm(q, default) ==
    LET toolTerms == <<"forklift", "gripper", "conveyor", "scanner", "lift", "arm", "vacuum">>
    IN
    IF \E i \in 1..Len(toolTerms) : Includes(q, toolTerms[i])
    THEN toolTerms[CHOOSE i \in 1..Len(toolTerms) :
                      /\ Includes(q, toolTerms[i])
                      /\ \A j \in 1..(i - 1) : ~Includes(q, toolTerms[j])]
    ELSE default

\* tool.toLowerCase().includes(term) for the tools of the fleet
ToolIncludes(tool, term) ==
    term \in (CASE tool = "Forklift Attachment" -> {"forklift", "lift"}
                [] tool = "Scanner Module" -> {"scanner"}
                [] tool = "Gripper Arm" -> {"gripper", "arm"}
                [] tool = "Platform Lift" -> {"lift"}
                [] OTHER -> {})

\* the threshold of /(\d+)%/ when the query has one, or the default
Threshold(q, default) ==
        \* /(\d+)%/: the positions of the matches
    LET PercentMatches(q0) == {i \in 1..Len(q0) : q0[i] \in PercentWords}
    IN
    IF PercentMatches(q) # {} THEN ParseInt(q[FirstMatch(PercentMatches(q))]) ELSE default

BatteryPairs(rs) == [i \in 1..Len(rs) |-> <<AmrPlain(rs[i].id), rs[i].batteryLevel>>]

\* zone + battery + efficiency
ComplexZoneBattery(h, q, d) ==
    LET zoneId == ZoneIdOf(q)
        efficiencyThreshold == Threshold(q, 70)
        zoneRobots == Filter(d.robots, {i \in 1..Len(d.robots) :
                          d.robots[i].zoneId = zoneId
                          /\ d.robots[i].efficiency < efficiencyThreshold})
        sortedRobots == StableSort(zoneRobots, BatteryOf(zoneRobots))
    IN
    IF ~HasZone(d, zoneId) THEN
        Reply(h, d, <<"I couldn't find ", zoneId, " in the system.">>,
              <<"Zone Not Found">>, NoData, "error", NoMeta)
    ELSE IF Len(zoneRobots) = 0 THEN
        Reply(h, d,
              <<"There are no AMRs in ", zoneId, " with efficiency below ",
                ToString(efficiencyThreshold), "%.">>,
              <<zoneId, " Battery Analysis">>, RobotList(<<>>), "multi-robot", NoMeta)
    ELSE
        Reply(h, d,
              <<"In ", zoneId, ", ", ToString(Len(sortedRobots)),
                " AMRs have efficiency below ", ToString(efficiencyThreshold),
                "%. Their battery levels range from ",
                ToString(sortedRobots[1].batteryLevel), "% to ",
                ToString(sortedRobots[Len(sortedRobots)].batteryLevel), "%.">>,
              <<zoneId, " Low Efficiency AMRs - Battery Analysis">>,
              RobotList(sortedRobots), "multi-robot",
              [NoMeta EXCEPT !.metricName = "Battery Level",
                             !.chartData = ObjFrom(BatteryPairs(sortedRobots))])

BatteryText(rs) ==
    [i \in 1..Len(rs) |-> <<AmrPlain(rs[i].id), " (", ToString(rs[i].batteryLevel), "%)">>]

\* tool + battery
ComplexToolBattery(h, q, d) ==
        \* term.charAt(0).toUpperCase() + term.slice(1)
    LET Capitalize(term) ==
            CASE term = "forklift" -> "Forklift"
              [] term = "gripper" -> "Gripper"
              [] term = "conveyor" -> "Conveyor"
              [] term = "scanner" -> "Scanner"
              [] term = "lift" -> "Lift"
              [] term = "arm" -> "Arm"
              [] term = "vacuum" -> "Vacuum"
    IN
    LET HasNullTool(rs) == \E i \in 1..Len(rs) : rs[i].currentTool = Null
    IN
    LET toolName == FirstToolTerm(q, "forklift")
        batteryThreshold == Threshold(q, 50)
        matchingRobots == Filter(d.robots, {i \in 1..Len(d.robots) :
                              ToolIncludes(d.robots[i].currentTool, toolName)
                              /\ d.robots[i].batteryLevel < batteryThreshold})
    IN
    IF HasNullTool(d.robots) THEN Throw(h, d)
    ELSE IF Len(matchingRobots) = 0 THEN
        Reply(h, d,
              <<"No AMRs with the ", toolName, " tool have battery levels below ",
                ToString(batteryThreshold), "%.">>,
              <<Capitalize(toolName), " Tool Users">>, RobotList(<<>>), "multi-robot", NoMeta)
    ELSE
        Reply(h, d,
              <<ToString(Len(matchingRobots)), " AMRs are using the ", toolName,
                " tool and have battery levels below ", ToString(batteryThreshold), "%: ">>
              \o Join(BatteryText(matchingRobots), ", ") \o <<".">>,
              <<Capitalize(toolName), " Tool Users - Low Battery">>,
              RobotList(matchingRobots), "multi-robot",
              [NoMeta EXCEPT !.metricName = "Battery Level",
                             !.chartData = ObjFrom(BatteryPairs(matchingRobots))])

\* compare + zone + efficiency
ComplexZoneComparison(h, q, d) ==
    LET toolFilter == IF toolPattern(q) THEN FirstToolTerm(q, Null) ELSE Null
        filteredRobots(z) ==
            Filter(d.robots, {i \in 1..Len(d.robots) :
                /\ d.robots[i].zoneId = z.id
                /\ toolFilter # Null => ToolIncludes(d.robots[i].currentTool, toolFilter)})
        zoneRobotCounts ==
            ObjFrom([i \in 1..Len(d.zones) |-> <<d.zones[i].name, Len(filteredRobots(d.zones[i]))>>])
        zoneEfficiencies ==
            ObjFrom([i \in 1..Len(d.zones) |->
                <<d.zones[i].name,
                  IF Len(filteredRobots(d.zones[i])) > 0
                  THEN Round(Sum(EfficiencyOf(filteredRobots(d.zones[i]))),
                             Len(filteredRobots(d.zones[i])))
                  ELSE 0>>])
        toolMessage == IF toolFilter # Null THEN <<" using ", toolFilter, " tools">> ELSE <<>>
        lines == [i \in 1..Len(zoneEfficiencies) |->
                    <<"- ", zoneEfficiencies[i][1], ": ", ToString(zoneEfficiencies[i][2]),
                      "% efficiency (",
                      ToString(ObjGet(zoneRobotCounts, zoneEfficiencies[i][1])), " AMRs">>
                    \o toolMessage \o <<")", NL>>]
    IN
    IF /\ toolFilter # Null
       /\ \E i \in 1..Len(d.robots) :
            /\ d.robots[i].currentTool = Null
            /\ \E j \in 1..Len(d.zones) : d.robots[i].zoneId = d.zones[j].id
    THEN Throw(h, d)
    ELSE
        Reply(h, d,
              Trim(<<"Zone efficiency comparison for AMRs">> \o toolMessage \o <<":", NL>>
                   \o Flatten(lines)),
              <<"Zone Efficiency Comparison">>
              \o (IF toolFilter # Null THEN <<" - ", toolFilter, " Tools">> ELSE <<>>),
              ZoneList(d.zones), "comparison",
              [NoMeta EXCEPT !.comparisonType = "Zone", !.metricName = "Efficiency",
                             !.chartData = zoneEfficiencies])

ComplexGeneric(h, q, d) ==
        \* the default analysis of a complex query
    LET ComplexZoneLines(rs) ==
            [i \in 1..Len(rs) |->
                <<"- ", AmrPlain(rs[i].id), ": ", rs[i].status, ", ", ToString(rs[i].batteryLevel),
                  "% battery, using ", Render(rs[i].currentTool), " tool", NL>>]
    IN
    LET ComplexBatteryLines(rs) ==
            [i \in 1..Len(rs) |->
                <<"- ", AmrPlain(rs[i].id), ": ", ToString(rs[i].batteryLevel), "% battery in ",
                  rs[i].zoneId, NL>>]
    IN
    LET ComplexMaintenanceLines(rs) ==
            [i \in 1..Len(rs) |-> <<"- ", AmrPlain(rs[i].id), " in ", rs[i].zoneId, NL>>]
    IN
    LET SplitParagraphs(msg) == SplitFrom(msg, <<>>)
    IN
    LET hasBattery == batteryPattern(q)
        hasEfficiency == efficiencyPattern(q)
        hasMaintenance == maintenancePattern(q)
        hasZone == zoneIdPattern(q)
        hasRobot == robotIdPattern(q)
        intro == <<"Based on your complex query, here's a comprehensive analysis:", NL, NL>>
        zoneFound == hasZone /\ HasZone(d, ZoneIdOf(q))
        robotId == ParseInt(q[FirstMatch(RobotIdMatches(q)) + 1])
        robotFound == ~hasZone /\ hasRobot /\ HasRobot(d, robotId)
        zonePart ==
            LET zone == getZoneById(d, ZoneIdOf(q))
                zoneRobots == RobotsInZone(d.robots, ZoneIdOf(q))
            IN  <<zone.name, " is a ", zone.priority, " priority zone with ",
                  ToString(zone.robotCount), " active AMRs and ",
                  ToString(zone.tasksPending), " pending tasks.", NL, NL>>
                \o (IF Len(zoneRobots) > 0
                    THEN <<"AMRs in this zone:", NL>> \o Flatten(ComplexZoneLines(zoneRobots))
                    ELSE <<>>)
        robotPart ==
            LET robot == getRobotById(d, robotId)
            IN  <<AmrPlain(robot.id), " is a ", robot.status, " robot in ", robot.zoneId,
                  " with ", ToString(robot.batteryLevel), "% battery.", NL,
                  "It's using a ", Render(robot.currentTool), " tool and currently ">>
                \o TaskPhrase(robot) \o <<".", NL,
                  "This robot is operating at ", ToString(robot.efficiency),
                  "% efficiency.", NL, NL>>
        generalPart ==
            LET highPriorityZones == Filter(d.zones, {i \in 1..Len(d.zones) :
                                         d.zones[i].priority = "high"})
                lowBatteryRobots == Filter(d.robots, {i \in 1..Len(d.robots) :
                                        d.robots[i].batteryLevel < 30})
                maintenanceRobots == RobotsWithStatus(d.robots, "maintenance")
            IN  <<"Warehouse Overview:", NL,
                  "- ", ToString(d.overview.activeRobots), " active AMRs out of ",
                  ToString(d.overview.totalRobots), " total", NL,
                  "- Overall efficiency: ", ToString(d.overview.robotEfficiency), "%", NL,
                  "- Tasks completed today: ", ToString(d.overview.tasksCompleted), NL, NL>>
                \o (IF Len(highPriorityZones) > 0
                    THEN <<"High Priority Zones: ">> \o Join(Names(highPriorityZones), ", ")
                         \o <<NL>>
                    ELSE <<>>)
                \o (IF hasBattery /\ Len(lowBatteryRobots) > 0
                    THEN <<NL, "Critical Battery Levels:", NL>>
                         \o Flatten(ComplexBatteryLines(lowBatteryRobots))
                    ELSE <<>>)
                \o (IF hasMaintenance /\ Len(maintenanceRobots) > 0
                    THEN <<NL, "Robots in Maintenance:", NL>>
                         \o Flatten(ComplexMaintenanceLines(maintenanceRobots))
                    ELSE <<>>)
        recommendations ==
            IF hasEfficiency
            THEN <<NL, "Efficiency Recommendations:", NL,
                   "- Redistribute AMRs from low-task zones to high-priority zones", NL,
                   "- Prioritize charging for AMRs with battery levels between 30-40%", NL,
                   "- Swap tools to match the most common tasks in each zone", NL>>
            ELSE <<>>
        analysisMessage ==
            intro
            \o (IF hasZone THEN (IF zoneFound THEN zonePart ELSE <<>>)
                ELSE IF hasRobot THEN (IF robotFound THEN robotPart ELSE <<>>)
                ELSE generalPart)
            \o recommendations
        title ==
            IF zoneFound THEN <<getZoneById(d, ZoneIdOf(q)).name, " Analysis">>
            ELSE IF robotFound THEN <<AmrPlain(robotId), " Analysis">>
            ELSE <<"Comprehensive Analysis">>
    IN
    Reply(h, d, Trim(analysisMessage), title,
          IF hasZone THEN ZoneList(d.zones)
          ELSE IF hasRobot THEN RobotList(d.robots) ELSE OverviewData(d.overview),
          IF hasZone THEN "multi-zone" ELSE IF hasRobot THEN "multi-robot" ELSE "overview",
          [NoMeta EXCEPT !.secondaryData = SplitParagraphs(analysisMessage)])

\* a complex handler whose default analysis stops before the recommendations
handleComplexQueryNoAdvice(q, d) ==
    LET h == "handleComplexQuery"
        Cut(msg) ==
            LET at == {i \in 1..Len(msg) : msg[i] = "Efficiency Recommendations:"}
            IN  IF at = {} THEN msg ELSE SubSeq(msg, 1, (CHOOSE i \in at : TRUE) - 1)
        generic == ComplexGeneric(h, q, d)
    IN
    IF zoneIdPattern(q) /\ batteryPattern(q) /\ efficiencyPattern(q)
    THEN ComplexZoneBattery(h, q, d)
    ELSE IF toolPattern(q) /\ batteryPattern(q) THEN ComplexToolBattery(h, q, d)
    ELSE IF comparePattern(q) /\ zoneIdPattern(q) /\ efficiencyPattern(q)
    THEN ComplexZoneComparison(h, q, d)
    ELSE [generic EXCEPT !.message = Cut(generic.message)]

handleComplexQuery(q, d) ==
    LET h == "handleComplexQuery" IN
    IF zoneIdPattern(q) /\ batteryPattern(q) /\ efficiencyPattern(q)
    THEN ComplexZoneBattery(h, q, d)
    ELSE IF toolPattern(q) /\ batteryPattern(q) THEN ComplexToolBattery(h, q, d)
    ELSE IF comparePattern(q) /\ zoneIdPattern(q) /\ efficiencyPattern(q)
    THEN ComplexZoneComparison(h, q, d)
    ELSE ComplexGeneric(h, q, d)

(***************************************************************************)
(* handleDeploymentQuery                                                   *)
(***************************************************************************)

\* for (const robot of sourceRobots): the iterator advances by index over the
\* array the body splices
RECURSIVE MoveRobots(_, _, _, _, _)
MoveRobots(sourceRobots, i, plan, sourceZoneId, targetZoneId) ==
        \* arr.splice(arr.indexOf(x), 1)
    LET SpliceOut(arr, x) ==
            LET k == CHOOSE i0 \in 1..Len(arr) : arr[i0] = x /\ \A j \in 1..(i0 - 1) : arr[j] # x
            IN  SubSeq(arr, 1, k - 1) \o SubSeq(arr, k + 1, Len(arr))
    IN
    LET PlansIncluding(plan0, zoneId) ==
                \* plan.includes(zoneId) of `Move AMR ${id} from ${source} to ${target}`
            LET PlanIncludes(move, zoneId0) == move.from = zoneId0 \/ move.to = zoneId0
            IN
            Cardinality({i0 \in 1..Len(plan0) : PlanIncludes(plan0[i0], zoneId)})
    IN
    IF i > Len(sourceRobots)
    THEN [sourceRobots |-> sourceRobots, plan |-> plan, full |-> FALSE]
    ELSE LET robot == sourceRobots[i]
             plan1 == Append(plan, [robot |-> robot.id, from |-> sourceZoneId,
                                    to |-> targetZoneId])
             rest == SpliceOut(sourceRobots, robot)
         IN  IF PlansIncluding(plan1, targetZoneId) >= 2
             THEN [sourceRobots |-> rest, plan |-> plan1, full |-> TRUE]
             ELSE IF Len(rest) = 0
             THEN [sourceRobots |-> rest, plan |-> plan1, full |-> FALSE]
             ELSE MoveRobots(rest, i + 1, plan1, sourceZoneId, targetZoneId)

\* for (const targetZoneId of Object.keys(targetZones)): the keys are read once
RECURSIVE EachTarget(_, _, _, _, _, _)
EachTarget(keys, k, sourceRobots, plan, targetZones, sourceZoneId) ==
    IF k > Len(keys) THEN [plan |-> plan, targetZones |-> targetZones]
    ELSE LET m == MoveRobots(sourceRobots, 1, plan, sourceZoneId, keys[k])
             left == IF m.full
                     THEN Filter(targetZones, {j \in 1..Len(targetZones) :
                                                  targetZones[j] # keys[k]})
                     ELSE targetZones
         IN  IF Len(m.sourceRobots) = 0 THEN [plan |-> m.plan, targetZones |-> left]
             ELSE EachTarget(keys, k + 1, m.sourceRobots, m.plan, left, sourceZoneId)

\* for (const [sourceZoneId, sourceRobots] of Object.entries(redistributableRobots))
RECURSIVE EachSource(_, _, _, _)
EachSource(entries, e, plan, targetZones) ==
    IF e > Len(entries) THEN plan
    ELSE LET t == EachTarget(targetZones, 1, entries[e][2], plan, targetZones, entries[e][1])
         IN  EachSource(entries, e + 1, t.plan, t.targetZones)

\* a low priority zone that gives every robot it has out of maintenance
redistributableRobotsAll(d, lowPriorityZones) ==
    LET zoneRobots(z) == Filter(d.robots, {i \in 1..Len(d.robots) :
                             d.robots[i].zoneId = z.id /\ d.robots[i].status # "maintenance"})
        givers == Filter(lowPriorityZones, {i \in 1..Len(lowPriorityZones) :
                      Len(zoneRobots(lowPriorityZones[i])) > 1})
    IN  ObjFrom([i \in 1..Len(givers) |-> <<givers[i].id, zoneRobots(givers[i])>>])

\* the robots a low priority zone can give: all but the last of its robots
\* that are not in maintenance, when it has more than one
redistributableRobots(d, lowPriorityZones) ==
    LET zoneRobots(z) == Filter(d.robots, {i \in 1..Len(d.robots) :
                             d.robots[i].zoneId = z.id /\ d.robots[i].status # "maintenance"})
        givers == Filter(lowPriorityZones, {i \in 1..Len(lowPriorityZones) :
                      Len(zoneRobots(lowPriorityZones[i])) > 1})
    IN  ObjFrom([i \in 1..Len(givers) |->
                    <<givers[i].id,
                      Slice0(zoneRobots(givers[i]), Len(zoneRobots(givers[i])) - 1)>>])

\* for (const zone of highTaskZones): each zone takes the first two robots
\* still idle
RECURSIVE deploymentPlans(_, _, _, _)
deploymentPlans(highTaskZones, z, idleRobots, plans) ==
    IF z > Len(highTaskZones) THEN plans
    ELSE LET availableRobots == Slice0(idleRobots, 2)
             lines == [i \in 1..Len(availableRobots) |->
                          <<"Deploy ", AmrPlain(availableRobots[i].id), " to ",
                            highTaskZones[z].name, " to help with ",
                            ToString(highTaskZones[z].tasksPending), " pending tasks">>]
             rest == SubSeq(idleRobots, Len(availableRobots) + 1, Len(idleRobots))
         IN  IF Len(rest) = 0 THEN plans \o lines
             ELSE deploymentPlans(highTaskZones, z + 1, rest, plans \o lines)

handleDeploymentQuery(q, d) ==
        \* the general deployment recommendation
    LET Recommend(h, d0) ==
            LET byTasks == SpreadSort(d0.zones, Negated(TasksPendingOf(d0.zones)))
                d1 == [d0 EXCEPT !.zones = byTasks.orig]
                highTaskZones == Slice0(byTasks.work, 2)
                idleRobots == RobotsWithStatus(d0.robots, "idle")
                plans == deploymentPlans(highTaskZones, 1, idleRobots, <<>>)
            IN
            IF Len(idleRobots) = 0 THEN
                Reply(h, d1,
                      <<"There are currently no idle AMRs available for deployment. All robots are actively engaged in tasks.">>,
                      <<"Deployment Recommendation">>, NoData, "error", NoMeta)
            ELSE IF Len(highTaskZones) = 0 THEN
                Reply(h, d1,
                      <<"All zones currently have balanced task loads. No specific deployment recommendation is needed at this time.">>,
                      <<"Deployment Recommendation">>, ZoneList(d1.zones), "multi-zone", NoMeta)
            ELSE
                Reply(h, d1,
                      <<"Based on the current warehouse state, I recommend the following deployments:",
                        NL, NL>> \o Join(plans, NL),
                      <<"Deployment Recommendations">>, ZoneList(highTaskZones), "multi-zone",
                      [NoMeta EXCEPT !.secondaryData = plans])
    IN
        \* the general redistribution path
    LET Redistribute(h, d00) ==
            LET redistributionPlan(d0) ==
                        \* the keys of targetZones, in insertion order
                    LET TargetZoneIds(highPriorityZones) ==
                            LET obj == ObjFrom([i \in 1..Len(highPriorityZones) |->
                                                   <<highPriorityZones[i].id, highPriorityZones[i]>>])
                            IN  [i \in 1..Len(obj) |-> obj[i][1]]
                    IN
                    LET highPriorityZones == Filter(d0.zones, {i \in 1..Len(d0.zones) :
                                                 d0.zones[i].priority = "high" /\ d0.zones[i].tasksPending > 5})
                        lowPriorityZones == Filter(d0.zones, {i \in 1..Len(d0.zones) :
                                                d0.zones[i].priority = "low" /\ d0.zones[i].tasksPending < 3})
                    IN  EachSource(redistributableRobots(d0, lowPriorityZones), 1, <<>>,
                                   TargetZoneIds(highPriorityZones))
            IN
            LET MoveText(plan) ==
                    [i \in 1..Len(plan) |->
                        <<"Move ", AmrPlain(plan[i].robot), " from ", plan[i].from, " to ", plan[i].to>>]
            IN
            LET highPriorityZones == Filter(d00.zones, {i \in 1..Len(d00.zones) :
                                         d00.zones[i].priority = "high" /\ d00.zones[i].tasksPending > 5})
                lowPriorityZones == Filter(d00.zones, {i \in 1..Len(d00.zones) :
                                        d00.zones[i].priority = "low" /\ d00.zones[i].tasksPending < 3})
                plan == redistributionPlan(d00)
            IN
            IF Len(highPriorityZones) = 0 \/ Len(lowPriorityZones) = 0 THEN
                Reply(h, d00,
                      <<"There's currently no need for robot redistribution. Zone priorities and task loads are well balanced.">>,
                      <<"Resource Distribution">>, ZoneList(d00.zones), "multi-zone", NoMeta)
            ELSE IF Len(plan) = 0 THEN
                Reply(h, d00,
                      <<"After analysis, I don't recommend any robot redistribution at this time. The current allocation is optimal given the task distribution.">>,
                      <<"Resource Distribution">>, ZoneList(d00.zones), "multi-zone", NoMeta)
            ELSE
                Reply(h, d00,
                      <<"I recommend the following robot redistribution plan to optimize warehouse operations:",
                        NL, NL>> \o Join(MoveText(plan), NL),
                      <<"Robot Redistribution Plan">>, ZoneList(d00.zones), "multi-zone",
                      [NoMeta EXCEPT !.secondaryData = MoveText(plan)])
    IN
    LET DeployToZone(h, q000, d000) ==
                \* data.getZoneById(r.zoneId)?.priority !== 'high'
            LET NotInHighPriorityZone(d0, r) == HasZone(d0, r.zoneId) => getZoneById(d0, r.zoneId).priority # "high"
            IN
            LET DeployText(rs) ==
                    [i \in 1..Len(rs) |->
                        <<AmrPlain(rs[i].id), " (", ToString(rs[i].batteryLevel), "% battery, currently ",
                          rs[i].status>>
                        \o (IF rs[i].status # "idle" THEN <<" in ", rs[i].zoneId>> ELSE <<>>)
                        \o <<")">>]
            IN
                \* the comparator of the deployment sort: idle robots first, then battery descending
            LET DeployKeys(rs) ==
                    [i \in 1..Len(rs) |->
                        (IF rs[i].status = "idle" THEN 0 ELSE 1000) - rs[i].batteryLevel]
            IN
                \* the robot count of /(\d+)\s+(robots|amrs)/i when the query has one, or the default
            LET RequestedCount(q00, default) ==
                        \* /(\d+)\s+(robots|amrs)/i: the positions of the matches
                    LET CountMatches(q0) ==
                            {i \in 1..(Len(q0) - 1) :
                                q0[i] \in DigitWords /\ ToLowerCase(q0[i + 1]) \in {"robots", "amrs"}}
                    IN
                    IF CountMatches(q00) # {} THEN ParseInt(q00[FirstMatch(CountMatches(q00))]) ELSE default
            IN
            LET zoneId == ZoneIdOf(q000)
                robotCount == RequestedCount(q000, 2)
                availableRobots ==
                    Filter(d000.robots, {i \in 1..Len(d000.robots) :
                        \/ d000.robots[i].status = "idle"
                        \/ /\ d000.robots[i].status # "maintenance"
                           /\ d000.robots[i].zoneId # zoneId
                           /\ NotInHighPriorityZone(d000, d000.robots[i])})
                sortedRobots == StableSort(availableRobots, DeployKeys(availableRobots))
                deployableRobots == Slice0(sortedRobots, robotCount)
            IN
            IF ~HasZone(d000, zoneId) THEN
                Reply(h, d000, <<"I couldn't find ", zoneId, " in the system.">>,
                      <<"Zone Not Found">>, NoData, "error", NoMeta)
            ELSE IF Len(availableRobots) = 0 THEN
                Reply(h, d000,
                      <<"There are no available AMRs to deploy to ", zoneId,
                        ". All AMRs are either in high priority zones or in maintenance.">>,
                      <<"Deployment to ", zoneId>>, NoData, "error", NoMeta)
            ELSE
                LET zone == getZoneById(d000, zoneId) IN
                Reply(h, d000,
                      <<"I can deploy ", ToString(Len(deployableRobots)), " AMRs to ", zoneId, ": ">>
                      \o Join(DeployText(deployableRobots), ", ") \o <<".">>,
                      <<"Deployment Plan for ", zoneId>>, RobotList(deployableRobots), "multi-robot",
                      [NoMeta EXCEPT !.secondaryData =
                          << <<"Target zone: ", zoneId, " (", zone.priority, " priority)">>,
                             <<"Current robot count: ", ToString(zone.robotCount)>>,
                             <<"Pending tasks: ", ToString(zone.tasksPending)>>,
                             <<"Traffic density: ", zone.trafficDensity>> >>])
    IN
    LET h == "handleDeploymentQuery" IN
    IF zoneIdPattern(q) THEN DeployToZone(h, q, d)
    ELSE IF redistributePattern(q) THEN Redistribute(h, d)
    ELSE Recommend(h, d)

(***************************************************************************)
(* handleOptimizationQuery                                                 *)
(***************************************************************************)
\* parts.join(sep) for a separator of several pieces
RECURSIVE JoinSeq(_, _)
JoinSeq(ss, sep) ==
    IF ss = <<>> THEN <<>>
    ELSE IF Len(ss) = 1 THEN ss[1]
    ELSE ss[1] \o sep \o JoinSeq(Tail(ss), sep)

\* robots.forEach(r => { if (!toolCounts[tool]) toolCounts[tool] = 0; toolCounts[tool]++ })
RECURSIVE CountTools(_, _)
CountTools(rs, counts) ==
    IF rs = <<>> THEN counts
    ELSE LET tool == Render(rs[1].currentTool)
             n == IF ObjHas(counts, tool) THEN ObjGet(counts, tool) ELSE 0
         IN  CountTools(Tail(rs), ObjSet(counts, tool, n + 1))

toolCounts(rs) == CountTools(rs, <<>>)

\* the robots below 30% battery that are not charging
NeedCharging(rs) ==
    Filter(rs, {i \in 1..Len(rs) : rs[i].batteryLevel < 30 /\ rs[i].status # "charging"})

\* the tools held by more than a third of the robots, not rounded up
toolsOverExactThird(rs) ==
    LET counts == toolCounts(rs)
        over == Filter(counts, {i \in 1..Len(counts) : counts[i][2] * 3 > Len(rs)})
    IN  [i \in 1..Len(over) |-> <<over[i][1]>>]

\* the tools held by more than Math.ceil(robots.length / 3) robots
toolsToRedistribute(rs) ==
    LET counts == toolCounts(rs)
        over == Filter(counts, {i \in 1..Len(counts) : counts[i][2] > Ceil(Len(rs), 3)})
    IN  [i \in 1..Len(over) |-> <<over[i][1]>>]

optimizations(d) ==
    LET lowBatteryRobots == NeedCharging(d.robots)
        maintenanceRobots == RobotsWithStatus(d.robots, "maintenance")
        idleRobots == RobotsWithStatus(d.robots, "idle")
        highTrafficZones == Filter(d.zones, {i \in 1..Len(d.zones) :
                                d.zones[i].trafficDensity = "high"})
        highTaskZones == Filter(d.zones, {i \in 1..Len(d.zones) : d.zones[i].tasksPending > 5})
        tools == toolsToRedistribute(d.robots)
        found ==
            (IF Len(lowBatteryRobots) > 0
             THEN << <<"Schedule ", ToString(Len(lowBatteryRobots)), " AMRs for charging: ">>
                     \o Join(BatteryText(lowBatteryRobots), ", ") >>
             ELSE <<>>)
            \o (IF Len(maintenanceRobots) > 0
                THEN << <<"Prioritize maintenance completion for ",
                          ToString(Len(maintenanceRobots)), " AMRs: ">>
                        \o Join(PlainIds(maintenanceRobots), ", ") >>
                ELSE <<>>)
            \o (IF Len(idleRobots) > 0 /\ Len(highTaskZones) > 0
                THEN << <<"Reassign ", ToString(Min(Len(idleRobots), Len(highTaskZones))),
                          " idle AMRs to high-task zones: ">>
                        \o Join(Names(highTaskZones), ", ") >>
                ELSE <<>>)
            \o (IF Len(highTrafficZones) > 0
                THEN << <<"Implement traffic control measures in high traffic zones: ">>
                        \o Join(Names(highTrafficZones), ", ") >>
                ELSE <<>>)
            \o (IF Len(tools) > 0
                THEN << <<"Redistribute ">> \o Join(tools, ", ")
                        \o <<" tools more evenly across AMRs">> >>
                ELSE <<>>)
    IN  IF Len(found) = 0
        THEN << <<"The warehouse is currently operating at optimal efficiency. Continue to monitor for changes.">> >>
        ELSE found

\* a handler that puts its recommendations in the message only
handleOptimizationQueryMessageOnly(q, d) ==
    Reply("handleOptimizationQuery", d,
          <<"Here are my optimization recommendations for improving warehouse operations:",
            NL, NL>> \o JoinSeq(optimizations(d), <<NL, NL>>),
          <<"Optimization Recommendations">>, OverviewData(d.overview), "overview", NoMeta)

handleOptimizationQuery(q, d) ==
    Reply("handleOptimizationQuery", d,
          <<"Here are my optimization recommendations for improving warehouse operations:",
            NL, NL>> \o JoinSeq(optimizations(d), <<NL, NL>>),
          <<"Optimization Recommendations">>, OverviewData(d.overview), "overview",
          [NoMeta EXCEPT !.secondaryData = optimizations(d)])

(***************************************************************************)
(* handleForecastQuery                                                     *)
(***************************************************************************)

handleForecastQuery(q, d) ==
    LET projections(d00) ==
            LET projectedEfficiency(d0) ==
                        \* (activeRobots / totalRobots) * 100 < 70, false for NaN and Infinity
                    LET LowActivity(o) ==
                            IF o.totalRobots = 0 THEN o.activeRobots < 0
                            ELSE 100 * o.activeRobots < 70 * o.totalRobots
                    IN
                    d0.overview.robotEfficiency
                    + (IF 10 * CountStatus(d0.robots, "maintenance") > Len(d0.robots) THEN 5 ELSE 0)
                    + (IF 5 * CountStatus(d0.robots, "charging") > Len(d0.robots) THEN 3 ELSE 0)
                    - (IF LowActivity(d0.overview) THEN 2 ELSE 0)
            IN
                \* `${Math.ceil(p / q)}` with JavaScript's division by zero
            LET CeilStr(p, q00) ==
                    IF q00 = 0 THEN (IF p = 0 THEN "NaN" ELSE IF p > 0 THEN "Infinity" ELSE "-Infinity")
                    ELSE ToString(Ceil(p, q00))
            IN
            LET n == Len(d00.robots)
                maintenanceRobots == CountStatus(d00.robots, "maintenance")
                highTaskZones == Filter(d00.zones, {i \in 1..Len(d00.zones) : d00.zones[i].tasksPending > 5})
            IN
            << <<"Based on current battery levels, approximately ", ToString(Round(n, 5)),
                 " AMRs will need charging within the next ",
                 RoundStr(Sum(BatteryOf(d00.robots)) - 20 * n, 5 * n), " hours">>,
               <<"At the current rate, approximately ", ToString(3 * d00.overview.tasksCompleted),
                 " tasks will be completed in the next 24 hours">> >>
            \o (IF maintenanceRobots > 0
                THEN << <<"If maintenance continues at the current rate, ",
                          ToString(maintenanceRobots),
                          " AMRs will resume operations in approximately 3 hours">> >>
                ELSE <<>>)
            \o << <<"Warehouse efficiency is projected to ",
                    IF projectedEfficiency(d00) > d00.overview.robotEfficiency THEN "increase"
                    ELSE "decrease",
                    " to ", ToString(projectedEfficiency(d00)), "% in the next 4 hours">> >>
            \o (IF Len(highTaskZones) > 0
                THEN << <<"High-task zones (">> \o Join(Names(highTaskZones), ", ")
                        \o <<") will require approximately ",
                             CeilStr(Sum(TasksPendingOf(highTaskZones)),
                                     2 * Sum(RobotCountOf(highTaskZones))),
                             " hours to clear current backlog">> >>
                ELSE <<>>)
    IN
    Reply("handleForecastQuery", d,
          <<"Based on current warehouse data, here are my projections for the next 24 hours:",
            NL, NL>> \o JoinSeq(projections(d), <<NL, NL>>),
          <<"Operational Forecast">>, OverviewData(d.overview), "overview",
          [NoMeta EXCEPT !.secondaryData = projections(d)])

(***************************************************************************)
(* handleUtilizationQuery                                                  *)
(***************************************************************************)

handleUtilizationQuery(q, d) ==
        \* zones.map(zone => ({name, utilization: (robotCount / capacity) * 100, capacity})),
        \* the utilization kept as the fraction robotCount / capacity
    LET zoneUtilization(zs) ==
                \* the capacity the handler assumes for a zone of a given priority
            LET Capacity(z) == IF z.priority = "high" THEN 10 ELSE IF z.priority = "medium" THEN 8 ELSE 6
            IN
            [i \in 1..Len(zs) |->
                [name |-> zs[i].name, robotCount |-> zs[i].robotCount, capacity |-> Capacity(zs[i])]]
    IN
    LET zoneCapacityAnalysis(d0) ==
            LET us == zoneUtilization(d0.zones) IN
            [i \in 1..Len(us) |->
                <<us[i].name, ": ", ToString(Round(100 * us[i].robotCount, us[i].capacity)),
                  "% utilized (", ToString(CountInZone(d0.robots, us[i].name)), "/",
                  ToString(us[i].capacity), " AMRs)">>]
    IN
    LET toolUtilizationAnalysis(d0) ==
            LET counts == toolCounts(d0.robots) IN
            [i \in 1..Len(counts) |->
                <<counts[i][1], ": ", ToString(counts[i][2]), " AMRs (",
                  RoundStr(100 * counts[i][2], Len(d0.robots)), "% of fleet)">>]
    IN
        \* b.utilization - a.utilization compares robotCount / capacity; 120 is a
        \* common multiple of the capacities
    LET UtilizationKeys(us) ==
            [i \in 1..Len(us) |-> 0 - (us[i].robotCount * (120 \div us[i].capacity))]
    IN
    LET CountKeys(counts) == [i \in 1..Len(counts) |-> 0 - counts[i][2]]
    IN
    LET h == "handleUtilizationQuery"
        o == d.overview
        robotUtilization == RoundStr(100 * o.activeRobots, o.totalRobots)
        availableCapacity == o.totalRobots - o.activeRobots
        additionalTaskCapacity == availableCapacity * 2
        \* zoneUtilization.sort(...) sorts the mapped array itself
        sortedUtilization ==
            StableSort(zoneUtilization(d.zones), UtilizationKeys(zoneUtilization(d.zones)))
        sortedTools == StableSort(toolCounts(d.robots), CountKeys(toolCounts(d.robots)))
    IN
    IF Len(sortedUtilization) = 0 \/ Len(sortedTools) = 0 THEN Throw(h, d)
    ELSE
        Reply(h, d,
              <<"Current warehouse utilization analysis:", NL, NL,
                "Robot Utilization: ", robotUtilization, "% of total fleet", NL, NL,
                "Zone Utilization:", NL>>
              \o Join(zoneCapacityAnalysis(d), NL)
              \o <<NL, NL, "Tool Distribution:", NL>>
              \o Join(toolUtilizationAnalysis(d), NL)
              \o <<NL, NL, "The warehouse has capacity for approximately ",
                   ToString(additionalTaskCapacity),
                   " additional tasks with the current resource allocation.">>,
              <<"Utilization & Capacity Analysis">>, OverviewData(o), "overview",
              [NoMeta EXCEPT
                  !.secondaryData =
                      << <<"Overall AMR utilization: ", robotUtilization, "%">>,
                         <<"Available capacity: ", ToString(availableCapacity), " AMRs">>,
                         <<"Estimated additional task capacity: ",
                           ToString(additionalTaskCapacity), " tasks">>,
                         <<"Most utilized zone: ", sortedUtilization[1].name>>,
                         <<"Most common tool: ", sortedTools[1][1]>> >>,
                  !.chartData =
                      ObjFrom([i \in 1..Len(sortedUtilization) |->
                                  <<sortedUtilization[i].name,
                                    Round(100 * sortedUtilization[i].robotCount,
                                          sortedUtilization[i].capacity)>>])])

(***************************************************************************)
(* handleSchedulingQuery                                                   *)
(***************************************************************************)

zonesWithTasks(zs) ==
        \* the comparator (rank(b) - rank(a)) || (b.tasksPending - a.tasksPending),
        \* for task counts below 1000
    LET ScheduleKeys(zs0) ==
            LET PriorityRank(z) == IF z.priority = "high" THEN 3 ELSE IF z.priority = "medium" THEN 2 ELSE 1
            IN
                            [i \in 1..Len(zs0) |-> 0 - (PriorityRank(zs0[i]) * 1000 + zs0[i].tasksPending)]
    IN
    LET withTasks == Filter(zs, {i \in 1..Len(zs) : zs[i].tasksPending > 0})
    IN  StableSort(withTasks, ScheduleKeys(withTasks))

\* for (const zone of zonesWithTasks): the zone takes idle robots for its tasks
RECURSIVE robotAssignments(_, _, _, _)
robotAssignments(zs, z, remainingIdleRobots, assignments) ==
    IF z > Len(zs) THEN assignments
    ELSE LET name == zs[z].name
             before == IF ObjHas(assignments, name) THEN ObjGet(assignments, name) ELSE <<>>
             robotsNeeded == Min(zs[z].tasksPending, Len(remainingIdleRobots))
             assignedRobots == Slice0(remainingIdleRobots, robotsNeeded)
             rest == SubSeq(remainingIdleRobots, Len(assignedRobots) + 1,
                            Len(remainingIdleRobots))
             after == ObjSet(assignments, name, before \o PlainIds(assignedRobots))
         IN  IF Len(rest) = 0 THEN after
             ELSE robotAssignments(zs, z + 1, rest, after)

handleSchedulingQuery(q, d, now) ==
    LET schedule(d0) ==
            LET lowBatteryRobots == NeedCharging(d0.robots)
                maintenanceRobots == RobotsWithStatus(d0.robots, "maintenance")
                idleRobots == RobotsWithStatus(d0.robots, "idle")
                assignments == robotAssignments(zonesWithTasks(d0.zones), 1, idleRobots, <<>>)
                \* zones.find(z => z.name === zoneName) finds the zone: the name came from a zone
                named(name) == d0.zones[CHOOSE i \in 1..Len(d0.zones) :
                                   /\ d0.zones[i].name = name
                                   /\ \A j \in 1..(i - 1) : d0.zones[j].name # name]
                assigned == Filter(assignments, {i \in 1..Len(assignments) :
                                Len(assignments[i][2]) > 0})
                found ==
                    (IF Len(lowBatteryRobots) > 0
                     THEN << <<"Immediate charging: ">> \o Join(BatteryText(lowBatteryRobots), ", ") >>
                     ELSE <<>>)
                    \o [i \in 1..Len(assigned) |->
                           <<"Assign ">> \o Join(assigned[i][2], ", ")
                           \o <<" to ", assigned[i][1], " for ",
                                ToString(named(assigned[i][1]).tasksPending), " pending tasks">>]
                    \o (IF Len(maintenanceRobots) > 0
                        THEN << <<"Maintenance completion (estimated 3 hours): ">>
                                \o Join(PlainIds(maintenanceRobots), ", ") >>
                        ELSE <<>>)
            IN  IF Len(found) = 0
                THEN << <<"No immediate scheduling actions required. All AMRs are appropriately assigned.">> >>
                ELSE found
    IN
        \* 30 minutes between schedule items
    LET timeSchedule(d00, now00) ==
                \* new Date(currentTime.getTime() + timeOffset * 60000) as hours and minutes,
                \* each padded to two digits
            LET TimeLabel(now0, timeOffset) ==
                    LET t == (now0 + timeOffset) % (24 * 60)
                    IN  PadStart2(t \div 60) \o ":" \o PadStart2(t % 60)
            IN
            [i \in 1..Len(schedule(d00)) |->
                <<TimeLabel(now00, 30 * (i - 1)), " - ">> \o schedule(d00)[i]]
    IN
    Reply("handleSchedulingQuery", d,
          <<"Here is the recommended schedule for the next few hours:", NL, NL>>
          \o JoinSeq(timeSchedule(d, now), <<NL, NL>>),
          <<"AMR Schedule Recommendation">>, ZoneList(zonesWithTasks(d.zones)), "multi-zone",
          [NoMeta EXCEPT !.secondaryData = timeSchedule(d, now)])

(***************************************************************************)
(* handleAllRobotsQuery                                                    *)
(***************************************************************************)
\* {active: n, idle: n, charging: n, maintenance: n}
statusCounts(rs) ==
    << <<"active", CountStatus(rs, "active")>>, <<"idle", CountStatus(rs, "idle")>>,
       <<"charging", CountStatus(rs, "charging")>>,
       <<"maintenance", CountStatus(rs, "maintenance")>> >>

StatusCountsText(rs) ==
    <<ToString(CountStatus(rs, "active")), " active, ", ToString(CountStatus(rs, "idle")),
      " idle, ", ToString(CountStatus(rs, "charging")), " charging, and ",
      ToString(CountStatus(rs, "maintenance")), " in maintenance.">>

SortedListReply(h, d, what, n, sortAttribute, data, type) ==
        \* sortAttribute.charAt(0).toUpperCase() + sortAttribute.slice(1)
    LET CapitalizeAttribute(a) ==
            CASE a = "batteryLevel" -> "BatteryLevel"
              [] a = "efficiency" -> "Efficiency"
              [] a = "priority" -> "Priority"
              [] a = "traffic density" -> "Traffic density"
    IN
    Reply(h, d,
          <<"Here are all ", ToString(n), " ", what, " in the warehouse">>
          \o (IF sortAttribute # "" THEN <<", sorted by ", sortAttribute>> ELSE <<>>)
          \o <<".">>,
          IF sortAttribute # ""
          THEN <<IF what = "AMRs" THEN "All Robots by " ELSE "All Zones by ",
                 CapitalizeAttribute(sortAttribute)>>
          ELSE <<IF what = "AMRs" THEN "All Robots" ELSE "All Zones">>,
          data, type, NoMeta)

handleAllRobotsQuery(q, d) ==
    LET h == "handleAllRobotsQuery"
        byBattery == SpreadSort(d.robots, Negated(BatteryOf(d.robots)))
        byEfficiency == SpreadSort(d.robots, Negated(EfficiencyOf(d.robots)))
    IN
    IF batteryPattern(q) THEN
        SortedListReply(h, [d EXCEPT !.robots = byBattery.orig], "AMRs", Len(d.robots),
                        "batteryLevel", RobotList(byBattery.work), "multi-robot")
    ELSE IF efficiencyPattern(q) THEN
        SortedListReply(h, [d EXCEPT !.robots = byEfficiency.orig], "AMRs", Len(d.robots),
                        "efficiency", RobotList(byEfficiency.work), "multi-robot")
    ELSE IF statusPattern(q) THEN
        Reply(h, d,
              <<"There are ", ToString(Len(d.robots)), " AMRs in the warehouse: ">>
              \o StatusCountsText(d.robots),
              <<"All Robots by Status">>, RobotList(d.robots), "multi-robot",
              [NoMeta EXCEPT !.metricName = "Status", !.chartData = statusCounts(d.robots)])
    ELSE
        SortedListReply(h, d, "AMRs", Len(d.robots), "", RobotList(d.robots), "multi-robot")

(***************************************************************************)
(* handleAllZonesQuery                                                     *)
(***************************************************************************)
\* {high: 3, medium: 2, low: 1}[level]
LevelValue(level) == IF level = "high" THEN 3 ELSE IF level = "medium" THEN 2 ELSE 1

handleAllZonesQuery(q, d) ==
    LET TrafficKeys(zs) == [i \in 1..Len(zs) |-> 0 - LevelValue(zs[i].trafficDensity)]
    IN
    LET PriorityKeys(zs) == [i \in 1..Len(zs) |-> 0 - LevelValue(zs[i].priority)]
    IN
    LET h == "handleAllZonesQuery"
        sorted == IF efficiencyPattern(q)
                  THEN SpreadSort(d.zones, Negated(EfficiencyOf(d.zones)))
                  ELSE IF priorityPattern(q) THEN SpreadSort(d.zones, PriorityKeys(d.zones))
                  ELSE IF trafficPattern(q) THEN SpreadSort(d.zones, TrafficKeys(d.zones))
                  ELSE [orig |-> d.zones, work |-> d.zones]
        sortAttribute == IF efficiencyPattern(q) THEN "efficiency"
                         ELSE IF priorityPattern(q) THEN "priority"
                         ELSE IF trafficPattern(q) THEN "traffic density"
                         ELSE ""
    IN
    SortedListReply(h, [d EXCEPT !.zones = sorted.orig], "zones", Len(d.zones),
                    sortAttribute, ZoneList(sorted.work), "multi-zone")

(***************************************************************************)
(* handleComparisonQuery                                                   *)
(***************************************************************************)

handleComparisonQuery(q, d) ==
    LET CompareRobots(h, d0, attribute) ==
            LET ToolCountsText(counts) ==
                    [i \in 1..Len(counts) |-> <<ToString(counts[i][2]), " using ", counts[i][1]>>]
            IN
            LET sorted == IF attribute = "batteryLevel"
                          THEN SpreadSort(d0.robots, Negated(BatteryOf(d0.robots)))
                          ELSE IF attribute = "efficiency"
                          THEN SpreadSort(d0.robots, Negated(EfficiencyOf(d0.robots)))
                          ELSE [orig |-> d0.robots, work |-> d0.robots]
                d1 == [d0 EXCEPT !.robots = sorted.orig]
                sortedRobots == sorted.work
                readableAttribute == IF attribute = "batteryLevel" THEN "Battery Level"
                                     ELSE "Efficiency"
            IN
            IF attribute = "status" THEN
                Reply(h, d1, <<"Comparing AMRs by status: ">> \o StatusCountsText(d1.robots),
                      <<"Robot Status Comparison">>, RobotList(sortedRobots), "comparison",
                      [NoMeta EXCEPT !.comparisonType = "Robot", !.metricName = "Status",
                                     !.chartData = statusCounts(d1.robots)])
            ELSE IF attribute = "currentTool" THEN
                Reply(h, d1,
                      <<"Comparing AMRs by current tool: ">>
                      \o Join(ToolCountsText(toolCounts(d1.robots)), ", ") \o <<".">>,
                      <<"Robot Tool Comparison">>, RobotList(sortedRobots), "comparison",
                      [NoMeta EXCEPT !.comparisonType = "Robot", !.metricName = "Tool",
                                     !.chartData = toolCounts(d1.robots)])
            ELSE IF Len(sortedRobots) = 0 THEN Throw(h, d1)
            ELSE
                Reply(h, d1,
                      <<"Comparing AMRs by ",
                        IF attribute = "batteryLevel" THEN "battery level" ELSE "efficiency",
                        ". The highest is ", AmrPlain(sortedRobots[1].id), " at ",
                        ToString(IF attribute = "batteryLevel" THEN sortedRobots[1].batteryLevel
                                 ELSE sortedRobots[1].efficiency),
                        IF attribute = "batteryLevel" THEN "%" ELSE "% efficiency", ".">>,
                      <<"Robot ", readableAttribute, " Comparison">>, RobotList(sortedRobots),
                      "comparison",
                      [NoMeta EXCEPT !.comparisonType = "Robot", !.metricName = readableAttribute])
    IN
    LET CompareZones(h, d0, attribute) ==
            LET sorted == IF attribute = "efficiency"
                          THEN SpreadSort(d0.zones, Negated(EfficiencyOf(d0.zones)))
                          ELSE [orig |-> d0.zones, work |-> d0.zones]
                d1 == [d0 EXCEPT !.zones = sorted.orig]
                sortedZones == sorted.work
                readableAttribute == IF attribute = "priority" THEN "Priority" ELSE "Traffic Density"
                categoryCounts ==
                    IF attribute = "priority"
                    THEN << <<"high", CountPriority(d1.zones, "high")>>,
                            <<"medium", CountPriority(d1.zones, "medium")>>,
                            <<"low", CountPriority(d1.zones, "low")>> >>
                    ELSE << <<"high", CountTraffic(d1.zones, "high")>>,
                            <<"medium", CountTraffic(d1.zones, "medium")>>,
                            <<"low", CountTraffic(d1.zones, "low")>> >>
            IN
            IF attribute \in {"priority", "trafficDensity"} THEN
                Reply(h, d1,
                      <<"Comparing zones by ",
                        IF attribute = "priority" THEN "priority" ELSE "traffic density", ": ",
                        ToString(categoryCounts[1][2]), " high, ", ToString(categoryCounts[2][2]),
                        " medium, and ", ToString(categoryCounts[3][2]), " low.">>,
                      <<"Zone ", readableAttribute, " Comparison">>, ZoneList(sortedZones),
                      "comparison",
                      [NoMeta EXCEPT !.comparisonType = "Zone", !.metricName = readableAttribute,
                                     !.chartData = categoryCounts])
            ELSE IF Len(sortedZones) = 0 THEN Throw(h, d1)
            ELSE
                Reply(h, d1,
                      <<"Comparing zones by efficiency. The most efficient is ", sortedZones[1].name,
                        " at ", ToString(sortedZones[1].efficiency), "%.">>,
                      <<"Zone Efficiency Comparison">>, ZoneList(sortedZones), "comparison",
                      [NoMeta EXCEPT !.comparisonType = "Zone", !.metricName = "Efficiency"])
    IN
    LET ComparisonAttribute(q0) ==
            IF batteryPattern(q0) THEN "batteryLevel"
            ELSE IF efficiencyPattern(q0) THEN "efficiency"
            ELSE IF statusPattern(q0) THEN "status"
            ELSE IF toolPattern(q0) THEN "currentTool"
            ELSE IF priorityPattern(q0) THEN "priority"
            ELSE IF trafficPattern(q0) THEN "trafficDensity"
            ELSE "efficiency"
    IN
    LET h == "handleComparisonQuery" IN
    IF Includes(q, "robot") \/ Includes(q, "amr") THEN CompareRobots(h, d, ComparisonAttribute(q))
    ELSE IF Includes(q, "zone") THEN CompareZones(h, d, ComparisonAttribute(q))
    ELSE
        Reply(h, d,
              <<"I'm not sure what you want to compare. You can compare robots by battery level, efficiency, status, or tool, or zones by priority, traffic density, or efficiency.">>,
              <<"Comparison">>, NoData, "error", NoMeta)

(***************************************************************************)
(* handleCountQuery                                                        *)
(***************************************************************************)
handleCountQuery(q, d) ==
    LET h == "handleCountQuery"
        totalPendingTasks == Sum(TasksPendingOf(d.zones))
    IN
    IF Includes(q, "robot") \/ Includes(q, "amr") THEN
        Reply(h, d,
              <<"There are ", ToString(Len(d.robots)), " total AMRs in the warehouse: ">>
              \o StatusCountsText(d.robots),
              <<"Robot Count">>, OverviewData(d.overview), "overview",
              [NoMeta EXCEPT !.secondaryData = StatusChart(d.robots)])
    ELSE IF Includes(q, "zone") THEN
        Reply(h, d,
              <<"There are ", ToString(Len(d.zones)), " total zones in the warehouse: ",
                ToString(CountPriority(d.zones, "high")), " high priority, ",
                ToString(CountPriority(d.zones, "medium")), " medium priority, and ",
                ToString(CountPriority(d.zones, "low")), " low priority.">>,
              <<"Zone Count">>, ZoneList(d.zones), "multi-zone",
              [NoMeta EXCEPT !.chartData =
                  << <<"High Priority", CountPriority(d.zones, "high")>>,
                     <<"Medium Priority", CountPriority(d.zones, "medium")>>,
                     <<"Low Priority", CountPriority(d.zones, "low")>> >>])
    ELSE IF Includes(q, "task") THEN
        Reply(h, d,
              <<"There are ", ToString(totalPendingTasks), " pending tasks and ",
                ToString(d.overview.tasksCompleted),
                " completed tasks today across all zones.">>,
              <<"Task Count">>, OverviewData(d.overview), "overview",
              [NoMeta EXCEPT !.secondaryData =
                  << <<"Pending Tasks", totalPendingTasks>>,
                     <<"Completed Tasks", d.overview.tasksCompleted>> >>])
    ELSE
        Reply(h, d,
              <<"The warehouse has ", ToString(d.overview.totalRobots), " total AMRs (",
                ToString(d.overview.activeRobots), " active) and ", ToString(Len(d.zones)),
                " zones with a total of ", ToString(totalPendingTasks), " pending tasks.">>,
              <<"Warehouse Count Summary">>, OverviewData(d.overview), "overview", NoMeta)

(***************************************************************************)
(* handlePriorityQuery and handleTrafficQuery                              *)
(***************************************************************************)

LevelChart(high, medium, low) == << <<"High", high>>, <<"Medium", medium>>, <<"Low", low>> >>

handlePriorityQuery(q, d) ==
    LET PriorityLevelReply(h, d0, level, title) ==
            LET ZonesWithPriority(zs, p) == Filter(zs, {i \in 1..Len(zs) : zs[i].priority = p})
            IN
            LET found == ZonesWithPriority(d0.zones, level) IN
            IF Len(found) = 0 THEN
                Reply(h, d0, <<"There are no ", level, " priority zones in the warehouse currently.">>,
                      <<title>>, NoData, "error", NoMeta)
            ELSE
                Reply(h, d0,
                      <<"There are ", ToString(Len(found)), " ", level, " priority zones: ">>
                      \o Join(Names(found), ", ")
                      \o <<". These zones have a total of ", ToString(Sum(TasksPendingOf(found))),
                           " pending tasks.">>,
                      <<title>>, ZoneList(found), "multi-zone", NoMeta)
    IN
    LET h == "handlePriorityQuery" IN
    IF highestPattern(q) THEN PriorityLevelReply(h, d, "high", "High Priority Zones")
    ELSE IF lowestPattern(q) THEN PriorityLevelReply(h, d, "low", "Low Priority Zones")
    ELSE
        Reply(h, d,
              <<"The warehouse has ", ToString(CountPriority(d.zones, "high")),
                " high priority zones, ", ToString(CountPriority(d.zones, "medium")),
                " medium priority zones, and ", ToString(CountPriority(d.zones, "low")),
                " low priority zones.">>,
              <<"Zones by Priority">>, ZoneList(d.zones), "multi-zone",
              [NoMeta EXCEPT !.metricName = "Priority",
                             !.chartData = LevelChart(CountPriority(d.zones, "high"),
                                                      CountPriority(d.zones, "medium"),
                                                      CountPriority(d.zones, "low"))])

handleTrafficQuery(q, d) ==
    LET TrafficLevelReply(h, d0, level, title, remark) ==
            LET ZonesWithTraffic(zs, t) == Filter(zs, {i \in 1..Len(zs) : zs[i].trafficDensity = t})
            IN
            LET found == ZonesWithTraffic(d0.zones, level) IN
            IF Len(found) = 0 THEN
                Reply(h, d0, <<"There are no ", level, " traffic zones in the warehouse currently.">>,
                      <<title>>, NoData, "error", NoMeta)
            ELSE
                Reply(h, d0,
                      <<"There are ", ToString(Len(found)), " ", level, " traffic zones: ">>
                      \o Join(Names(found), ", ")
                      \o <<". These zones ", remark, " with ", ToString(Sum(RobotCountOf(found))),
                           " active robots.">>,
                      <<title>>, ZoneList(found), "multi-zone", NoMeta)
    IN
    LET h == "handleTrafficQuery" IN
    IF highestPattern(q)
    THEN TrafficLevelReply(h, d, "high", "High Traffic Zones", "might experience congestion")
    ELSE IF lowestPattern(q)
    THEN TrafficLevelReply(h, d, "low", "Low Traffic Zones", "have good flow")
    ELSE
        Reply(h, d,
              <<"The warehouse has ", ToString(CountTraffic(d.zones, "high")),
                " high traffic zones, ", ToString(CountTraffic(d.zones, "medium")),
                " medium traffic zones, and ", ToString(CountTraffic(d.zones, "low")),
                " low traffic zones.">>,
              <<"Zones by Traffic">>, ZoneList(d.zones), "multi-zone",
              [NoMeta EXCEPT !.metricName = "Traffic Density",
                             !.chartData = LevelChart(CountTraffic(d.zones, "high"),
                                                      CountTraffic(d.zones, "medium"),
                                                      CountTraffic(d.zones, "low"))])

(***************************************************************************)
(* processQuery                                                            *)
(***************************************************************************)
HelpMessage ==
    <<"I'm not sure how to answer that question. You can ask me about specific AMRs (e.g., \"Where is AMR 03?\"), zones (e.g., \"Show Zone B status\"), or general warehouse information like efficiency or maintenance needs. You can also ask to compare robots or zones, see all robots or zones, get counts, or check priority or traffic information. For more complex operations, try asking about optimizing workflows, deploying robots, or forecasting capacity needs.">>

\* a variant: the traffic check placed before the priority check
processQueryTrafficFirst(rawQuery, d, now) ==
    LET q == Normalize(rawQuery) IN
    IF isComplexQuery(q) THEN handleComplexQuery(q, d)
    ELSE IF robotIdPattern(q) THEN handleRobotQuery(q, d)
    ELSE IF zoneIdPattern(q) THEN handleZoneQuery(q, d)
    ELSE IF deploymentPattern(q) \/ redistributePattern(q) THEN handleDeploymentQuery(q, d)
    ELSE IF optimizePattern(q) THEN handleOptimizationQuery(q, d)
    ELSE IF forecastPattern(q) \/ trendPattern(q) THEN handleForecastQuery(q, d)
    ELSE IF utilizationPattern(q) \/ capacityPattern(q) THEN handleUtilizationQuery(q, d)
    ELSE IF allRobotsPattern(q) THEN handleAllRobotsQuery(q, d)
    ELSE IF allZonesPattern(q) THEN handleAllZonesQuery(q, d)
    ELSE IF comparePattern(q) THEN handleComparisonQuery(q, d)
    ELSE IF countPattern(q) THEN handleCountQuery(q, d)
    ELSE IF trafficPattern(q) THEN handleTrafficQuery(q, d)
    ELSE IF priorityPattern(q) THEN handlePriorityQuery(q, d)
    ELSE IF overviewPattern(q) THEN handleOverviewQuery(q, d)
    ELSE IF efficiencyPattern(q) THEN handleEfficiencyQuery(q, d)
    ELSE IF statusPattern(q) THEN handleStatusQuery(q, d)
    ELSE IF maintenancePattern(q) THEN handleMaintenanceQuery(q, d)
    ELSE IF batteryPattern(q) THEN handleBatteryQuery(q, d)
    ELSE IF locationPattern(q) /\ (Includes(q, "robots") \/ Includes(q, "amrs"))
    THEN handleMultiRobotLocationQuery(q, d)
    ELSE IF schedulePattern(q) THEN handleSchedulingQuery(q, d, now)
    ELSE Reply("processQuery", d, HelpMessage, <<"AI Response">>, NoData, "error", NoMeta)

\* a router that tries the deployment handler before the zone handler
processQueryDeployFirst(rawQuery, d, now) ==
    LET q == Normalize(rawQuery) IN
    IF isComplexQuery(q) THEN handleComplexQuery(q, d)
    ELSE IF robotIdPattern(q) THEN handleRobotQuery(q, d)
    ELSE IF deploymentPattern(q) \/ redistributePattern(q) THEN handleDeploymentQuery(q, d)
    ELSE IF zoneIdPattern(q) THEN handleZoneQuery(q, d)
    ELSE IF optimizePattern(q) THEN handleOptimizationQuery(q, d)
    ELSE IF forecastPattern(q) \/ trendPattern(q) THEN handleForecastQuery(q, d)
    ELSE IF utilizationPattern(q) \/ capacityPattern(q) THEN handleUtilizationQuery(q, d)
    ELSE IF allRobotsPattern(q) THEN handleAllRobotsQuery(q, d)
    ELSE IF allZonesPattern(q) THEN handleAllZonesQuery(q, d)
    ELSE IF comparePattern(q) THEN handleComparisonQuery(q, d)
    ELSE IF countPattern(q) THEN handleCountQuery(q, d)
    ELSE IF priorityPattern(q) THEN handlePriorityQuery(q, d)
    ELSE IF trafficPattern(q) THEN handleTrafficQuery(q, d)
    ELSE IF overviewPattern(q) THEN handleOverviewQuery(q, d)
    ELSE IF efficiencyPattern(q) THEN handleEfficiencyQuery(q, d)
    ELSE IF statusPattern(q) THEN handleStatusQuery(q, d)
    ELSE IF maintenancePattern(q) THEN handleMaintenanceQuery(q, d)
    ELSE IF batteryPattern(q) THEN handleBatteryQuery(q, d)
    ELSE IF locationPattern(q) /\ (Includes(q, "robots") \/ Includes(q, "amrs"))
    THEN handleMultiRobotLocationQuery(q, d)
    ELSE IF schedulePattern(q) THEN handleSchedulingQuery(q, d, now)
    ELSE Reply("processQuery", d, HelpMessage, <<"AI Response">>, NoData, "error", NoMeta)

processQuery(rawQuery, d, now) ==
    LET q == Normalize(rawQuery) IN
    IF isComplexQuery(q) THEN handleComplexQuery(q, d)
    ELSE IF robotIdPattern(q) THEN handleRobotQuery(q, d)
    ELSE IF zoneIdPattern(q) THEN handleZoneQuery(q, d)
    ELSE IF deploymentPattern(q) \/ redistributePattern(q) THEN handleDeploymentQuery(q, d)
    ELSE IF optimizePattern(q) THEN handleOptimizationQuery(q, d)
    ELSE IF forecastPattern(q) \/ trendPattern(q) THEN handleForecastQuery(q, d)
    ELSE IF utilizationPattern(q) \/ capacityPattern(q) THEN handleUtilizationQuery(q, d)
    ELSE IF allRobotsPattern(q) THEN handleAllRobotsQuery(q, d)
    ELSE IF allZonesPattern(q) THEN handleAllZonesQuery(q, d)
    ELSE IF comparePattern(q) THEN handleComparisonQuery(q, d)
    ELSE IF countPattern(q) THEN handleCountQuery(q, d)
    ELSE IF priorityPattern(q) THEN handlePriorityQuery(q, d)
    ELSE IF trafficPattern(q) THEN handleTrafficQuery(q, d)
    ELSE IF overviewPattern(q) THEN handleOverviewQuery(q, d)
    ELSE IF efficiencyPattern(q) THEN handleEfficiencyQuery(q, d)
    ELSE IF statusPattern(q) THEN handleStatusQuery(q, d)
    ELSE IF maintenancePattern(q) THEN handleMaintenanceQuery(q, d)
    ELSE IF batteryPattern(q) THEN handleBatteryQuery(q, d)
    ELSE IF locationPattern(q) /\ (Includes(q, "robots") \/ Includes(q, "amrs"))
    THEN handleMultiRobotLocationQuery(q, d)
    ELSE IF schedulePattern(q) THEN handleSchedulingQuery(q, d, now)
    ELSE Reply("processQuery", d, HelpMessage, <<"AI Response">>, NoData, "error", NoMeta)

(***************************************************************************)
(* The snapshots of the model: the warehouse data a caller can hand in.    *)
(* A zone's robotCount is the number of its active robots and the overview *)
(* is derived from the robots and zones, as initializeData derives them.   *)
(***************************************************************************)
Robot(id, status, zoneId, batteryLevel, currentTask, currentTool, efficiency, x, y) ==
    [id |-> id, name |-> AmrPadded(id), status |-> status, zoneId |-> zoneId,
     batteryLevel |-> batteryLevel, currentTask |-> currentTask,
     currentTool |-> currentTool, efficiency |-> efficiency,
     coordinates |-> [x |-> x, y |-> y]]

Zone(id, priority, rs, tasksPending, tasksCompleted, efficiency, trafficDensity) ==
    [id |-> id, name |-> id, priority |-> priority,
     robotCount |-> Cardinality({i \in 1..Len(rs) :
                       rs[i].zoneId = id /\ rs[i].status = "active"}),
     tasksPending |-> tasksPending, tasksCompleted |-> tasksCompleted,
     efficiency |-> efficiency, trafficDensity |-> trafficDensity]

FleetRobots ==
    << Robot(1, "active", "Zone A", 85, "Pallet Transport", "Forklift Attachment", 90, 10, 5),
       Robot(2, "idle", "Zone C", 25, "Box Sorting", "Gripper Arm", 70, 5, 25),
       Robot(3, "maintenance", "Zone B", 60, "Inventory Scanning", "Scanner Module", 80, 40, 10),
       Robot(5, "charging", "Zone C", 15, "Pick and Place", "Forklift Attachment", 95, 20, 28) >>

FleetZones ==
    << Zone("Zone A", "high", FleetRobots, 7, 60, 88, "medium"),
       Zone("Zone B", "medium", FleetRobots, 9, 45, 92, "high"),
       Zone("Zone C", "low", FleetRobots, 2, 30, 75, "low") >>

FleetActivities ==
    LET Activity(id, type, iconName, message) ==
            [id |-> id, type |-> type, iconName |-> iconName, message |-> message]
    IN
    << Activity(2, "system", "refresh-line", "System optimization completed"),
       Activity(1, "robot", "robot-line", "AMR 01 completed pallet transport") >>

\* two robots without a task, one of them without a tool, and no Zone C
SparseRobots ==
    << Robot(2, "active", "Zone B", 55, Null, Null, 85, 35, 12),
       Robot(1, "idle", "Zone A", 90, Null, "Platform Lift", 85, 12, 8) >>

SparseZones ==
    << Zone("Zone A", "high", SparseRobots, 3, 50, 90, "low"),
       Zone("Zone B", "low", SparseRobots, 1, 40, 90, "medium") >>

Snapshots ==
        \* seven robots, four of them with the same tool, in two low priority
        \* zones next to two high priority zones with many pending tasks
    LET CrowdedRobots ==
            << Robot(1, "active", "Zone C", 80, "Box Sorting", "Gripper Arm", 90, 10, 25),
               Robot(2, "idle", "Zone C", 70, "Box Sorting", "Gripper Arm", 85, 12, 26),
               Robot(3, "maintenance", "Zone C", 65, "Pick and Place", "Gripper Arm", 82, 14, 27),
               Robot(4, "active", "Zone C", 90, "Pick and Place", "Gripper Arm", 88, 16, 28),
               Robot(6, "charging", "Zone C", 55, "Inventory Scanning", "Scanner Module", 81, 18, 29),
               Robot(7, "active", "Zone E", 75, "Pallet Transport", "Forklift Attachment", 93, 20, 22),
               Robot(8, "idle", "Zone E", 95, "Pallet Transport", "Tote Carrier", 86, 22, 23) >>
        CrowdedZones ==
            << Zone("Zone A", "high", CrowdedRobots, 8, 60, 88, "medium"),
               Zone("Zone B", "high", CrowdedRobots, 6, 45, 84, "high"),
               Zone("Zone E", "low", CrowdedRobots, 2, 35, 78, "low"),
               Zone("Zone C", "low", CrowdedRobots, 1, 30, 75, "low") >>
    IN
    LET Snapshot(rs, zs, as) ==
                \* Math.floor(robots.reduce(...) / robots.length), 0 for an empty fleet
            LET Overview(rs0, zs0) ==
                    [activeRobots |-> CountStatus(rs0, "active"), totalRobots |-> Len(rs0),
                     tasksCompleted |-> Sum([i \in 1..Len(zs0) |-> zs0[i].tasksCompleted]),
                     robotEfficiency |-> IF Len(rs0) = 0 THEN 0 ELSE Sum(EfficiencyOf(rs0)) \div Len(rs0)]
            IN
            [robots |-> rs, zones |-> zs, activities |-> as, overview |-> Overview(rs, zs)]
    IN
    { Snapshot(FleetRobots, FleetZones, FleetActivities),
      Snapshot(SparseRobots, SparseZones, <<>>),
      Snapshot(CrowdedRobots, CrowdedZones, FleetActivities),
      Snapshot(<<>>, FleetZones, FleetActivities),
      Snapshot(<<>>, <<>>, <<>>) }

(***************************************************************************)
(* The queries of the model: up to MaxPhrases of these phrases, one after  *)
(* the other.                                                              *)
(***************************************************************************)

\* the queries made of at most n phrases taken in order from the k-th on
RECURSIVE QueriesFrom(_, _)
QueriesFrom(k, n) ==
    LET Phrases ==
            << <<"AMR", "1">>, <<"robot", "2">>, <<"amr", "99">>, <<"Zone", "A">>, <<"zone", "c">>,
               <<"zone", "d">>, <<"deploy">>, <<"balance">>, <<"optimize">>, <<"forecast">>,
               <<"trend">>, <<"usage">>, <<"capacity">>, <<"all", "robots">>, <<"all", "zones">>,
               <<"compare">>, <<"how", "many">>, <<"priority">>, <<"traffic">>, <<"summary">>,
               <<"efficiency">>, <<"status">>, <<"repair">>, <<"battery">>, <<"charging">>,
               <<"where">>, <<"robots">>, <<"zones">>, <<"tasks">>, <<"schedule">>, <<"tool">>,
               <<"forklift">>, <<"60%">>, <<"lowest">>, <<"highest">>, <<"idle">>, <<"active">>,
               <<"hello">> >>
    IN
    IF n = 0 THEN {<<>>}
    ELSE {<<>>} \cup UNION {{Phrases[i] \o rest : rest \in QueriesFrom(i + 1, n - 1)} :
                              i \in k..Len(Phrases)}

(***************************************************************************)
(* The state machine: a caller holds a query and a snapshot, and calls     *)
(* processQuery on them any number of times while the clock runs.          *)
(***************************************************************************)

\* what the caller receives: the returned object, or the exception
\* the storage once the server has started: the permissions of PERMISSIONS
\* numbered in their order, the admin account, the default permissions of
\* the roles, no override, no session
FreshStorage ==
    [users |-> << <<1, [id |-> 1, username |-> "admin", role |-> "admin"]>> >>,
     currentId |-> 2,
     permissionsList |->
         << <<1, "system:admin">>, <<2, "user:view">>, <<3, "user:create">>,
            <<4, "user:edit">>, <<5, "user:delete">>, <<6, "robot:view">>,
            <<7, "robot:control">>, <<8, "robot:deploy">>, <<9, "robot:maintenance">>,
            <<10, "zone:view">>, <<11, "zone:edit">>, <<12, "zone:prioritize">>,
            <<13, "analytics:view">>, <<14, "analytics:export">>, <<15, "settings:edit">>,
            <<16, "ai:query">> >>,
     rolePermissionsList |->
         << <<"admin", <<1, 2, 3, 4, 5, 6, 7, 8, 9, 10, 11, 12, 13, 14, 15, 16>> >>,
            <<"manager", <<2, 4, 13, 14, 7, 11>> >>,
            <<"maintenance", <<13, 6, 9, 10>> >>,
            <<"operator", <<13, 6, 10>> >>,
            <<"viewer", <<13>> >> >>,
     userPermissionsList |-> <<>>,
     sessions |-> {}]

\* no remote call has been made
NotAsked ==
    [asked |-> FALSE,
     openai |-> [ok |-> FALSE, display |-> "none", robotId |-> 0, zoneId |-> Null],
     perplexity |-> [ok |-> FALSE, display |-> "none", robotId |-> 0, zoneId |-> Null]]

\* the message the dashboard's chat starts with
Greeting ==
    <<"Hello! I'm your Delphnoid AI Assistant. How can I help you with warehouse operations today?">>

Returned(out) ==
    [handler |-> out.handler, thrown |-> out.thrown, message |-> out.message,
     response |-> out.response]

Init ==
    LET Queries == QueriesFrom(1, MaxPhrases)
    IN
    LET NoResult ==
            [handler |-> "", thrown |-> FALSE, message |-> <<>>,
             response |-> [title |-> <<>>, data |-> NoData, type |-> "", metadata |-> NoMeta],
             snapshot |-> <<>>]
    IN
    /\ query \in Queries
    /\ \E s \in Snapshots :
        /\ robots = s.robots
        /\ zones = s.zones
        /\ activities = s.activities
        /\ overview = s.overview
    /\ clock = 0
    /\ result = Returned(NoResult)
    /\ activeData = <<>>
    /\ assistant = Greeting
    /\ remote = NotAsked
    /\ messages = <<[role |-> "assistant", content |-> Greeting]>>
    /\ isProcessing = FALSE
    /\ storage = FreshStorage
    /\ request = [route |-> "", actor |-> ""]

ProcessQuery ==
    LET Data == [robots |-> robots, zones |-> zones, activities |-> activities,
                 overview |-> overview]
    IN
    LET out == processQuery(query, Data, clock) IN
    /\ result' = Returned(out)
    /\ robots' = out.snapshot.robots
    /\ zones' = out.snapshot.zones
    /\ activities' = out.snapshot.activities
    /\ overview' = out.snapshot.overview
    /\ UNCHANGED <<query, clock, activeData, assistant, remote, messages, isProcessing,
                   storage, request>>

\* a minute passes
Tick ==
    /\ clock < MaxClock
    /\ clock' = clock + 1
    /\ UNCHANGED <<query, robots, zones, activities, overview, result, activeData, assistant,
                   remote, messages, isProcessing, storage, request>>

Spec == Init /\ [][ProcessQuery \/ Tick]_vars

(***************************************************************************)
(* Properties.                                                             *)
(***************************************************************************)
\* a call has been made
Called == result.handler # ""

\* the query as the detectors see it
Q == Normalize(query)

Complex == "handleComplexQuery"

\* the detector families the specification enumerates for the classifier
FamiliesFired(q) ==
    {f \in {"battery", "efficiency", "maintenance", "status", "location", "tool",
            "comparison", "priority", "traffic", "deployment", "redistribution",
            "optimization", "forecast", "trend", "utilization", "capacity", "schedule",
            "count", "idle/active", "highest/lowest", "all-robots/all-zones"} :
        CASE f = "battery" -> batteryPattern(q)
          [] f = "efficiency" -> efficiencyPattern(q)
          [] f = "maintenance" -> maintenancePattern(q)
          [] f = "status" -> statusPattern(q)
          [] f = "location" -> locationPattern(q)
          [] f = "tool" -> toolPattern(q)
          [] f = "comparison" -> comparePattern(q)
          [] f = "priority" -> priorityPattern(q)
          [] f = "traffic" -> trafficPattern(q)
          [] f = "deployment" -> deploymentPattern(q)
          [] f = "redistribution" -> redistributePattern(q)
          [] f = "optimization" -> optimizePattern(q)
          [] f = "forecast" -> forecastPattern(q)
          [] f = "trend" -> trendPattern(q)
          [] f = "utilization" -> utilizationPattern(q)
          [] f = "capacity" -> capacityPattern(q)
          [] f = "schedule" -> schedulePattern(q)
          [] f = "count" -> countPattern(q)
          [] f = "idle/active" -> idlePattern(q) \/ activePattern(q)
          [] f = "highest/lowest" -> highestPattern(q) \/ lowestPattern(q)
          [] f = "all-robots/all-zones" -> allRobotsPattern(q) \/ allZonesPattern(q)}

\* the keyword detectors the classifier counts
KeywordsCounted(q) ==
    LET fired == FamiliesFired(q)
    IN  {f \in {"battery", "efficiency", "maintenance", "tool", "status", "priority",
                "traffic", "comparison"} : f \in fired}

\* the identifier detectors the classifier counts
IdsCounted(q) ==
    (IF robotIdPattern(q) THEN {"robot-id"} ELSE {})
    \cup (IF zoneIdPattern(q) THEN {"zone-id"} ELSE {})

Counted(q) == KeywordsCounted(q) \cup IdsCounted(q)

\* C1: every call returns a complete {message, response} pair and never
\* throws, whatever the query and the snapshot (empty robot or zone list,
\* robots with a null currentTool).
C1_AlwaysReturns ==
    Called => /\ ~result.thrown
              /\ result.message # <<>>
              /\ result.response.title # <<>>
              /\ result.response.type # ""

\* the detectors in the order the specification gives them, each with the
\* handler it belongs to
RoutingOrder(q) ==
    << <<robotIdPattern(q), "handleRobotQuery">>,
       <<zoneIdPattern(q), "handleZoneQuery">>,
       <<deploymentPattern(q) \/ redistributePattern(q), "handleDeploymentQuery">>,
       <<optimizePattern(q), "handleOptimizationQuery">>,
       <<forecastPattern(q) \/ trendPattern(q), "handleForecastQuery">>,
       <<utilizationPattern(q) \/ capacityPattern(q), "handleUtilizationQuery">>,
       <<allRobotsPattern(q), "handleAllRobotsQuery">>,
       <<allZonesPattern(q), "handleAllZonesQuery">>,
       <<comparePattern(q), "handleComparisonQuery">>,
       <<countPattern(q), "handleCountQuery">>,
       <<priorityPattern(q), "handlePriorityQuery">>,
       <<trafficPattern(q), "handleTrafficQuery">>,
       <<overviewPattern(q), "handleOverviewQuery">>,
       <<efficiencyPattern(q), "handleEfficiencyQuery">>,
       <<statusPattern(q), "handleStatusQuery">>,
       <<maintenancePattern(q), "handleMaintenanceQuery">>,
       <<batteryPattern(q), "handleBatteryQuery">>,
       <<locationPattern(q) /\ (\E i \in 1..Len(q) : q[i] \in {"robots", "amrs"}),
         "handleMultiRobotLocationQuery">>,
       <<schedulePattern(q), "handleSchedulingQuery">> >>

Matching(q) ==
    LET order == RoutingOrder(q)
    IN  {i \in 1..Len(order) : order[i][1]}

\* C2: a query that is not complex is answered by the handler of the first
\* detector that matches, in the fixed order; when no detector matches the
\* answer is the fixed help message with type 'error' and no data, whatever
\* the snapshot.
C2_FirstMatchWins ==
    (Called /\ Cardinality(Counted(Q)) < 3) =>
        LET order == RoutingOrder(Q)
            matching == {i \in 1..Len(order) : order[i][1]}
        IN  IF matching # {}
            THEN result.handler = order[FirstMatch(matching)][2]
            ELSE /\ result.handler = "processQuery"
                 /\ ~result.thrown
                 /\ result.response.type = "error"
                 /\ result.response.data = NoData
                 /\ result.message = HelpMessage

\* two detectors match and the earlier one has answered
C2_Witness ==
    /\ priorityPattern(Q) /\ trafficPattern(Q)
    /\ Cardinality(Matching(Q)) >= 2
    /\ result.handler = "handlePriorityQuery"

\* no detector matches and the help message has been returned
C2_HelpWitness == Called /\ Matching(Q) = {} /\ result.message = HelpMessage

\* C3 as stated: a query on which at least 3 of the enumerated detector
\* families fire is handled by the complex handler.
C3_AsStated == (Called /\ Cardinality(FamiliesFired(Q)) >= 3) => result.handler = Complex

\* C3: a query on which at least 3 of the ten counted detectors fire
\* (robot-id, zone-id, battery, efficiency, maintenance, tool, status,
\* priority, traffic, comparison) is handled by the complex handler and never
\* by a single-intent handler.
C3_CountedRouting == (Called /\ Cardinality(Counted(Q)) >= 3) => result.handler = Complex

\* exactly three keyword detectors fire, no identifier, and the complex
\* handler has answered
C3_Witness ==
    /\ Cardinality(KeywordsCounted(Q)) = 3
    /\ IdsCounted(Q) = {}
    /\ result.handler = Complex

\* C4 as stated: identifiers do not count, so a query on which fewer than 3
\* keyword detector families fire is never routed to the complex handler,
\* even when it also names a robot and a zone.
C4_AsStated == (Called /\ Cardinality(FamiliesFired(Q)) < 3) => result.handler # Complex

\* C4: a robot id and a zone id each count as one detector toward the
\* threshold: the complex handler answers only queries on which at least 3
\* counted detectors fire, identifiers included, and a query that names a
\* robot, a zone and one counted keyword is answered by the complex handler.
C4_IdsCount ==
    Called =>
        /\ result.handler = Complex => Cardinality(Counted(Q)) >= 3
        /\ (Cardinality(IdsCounted(Q)) = 2 /\ KeywordsCounted(Q) # {})
               => result.handler = Complex

\* a robot id, a zone id and the status keyword alone: the complex handler
\* has answered
C4_Witness ==
    /\ Cardinality(IdsCounted(Q)) = 2
    /\ KeywordsCounted(Q) = {"status"}
    /\ Cardinality(FamiliesFired(Q)) = 1
    /\ result.handler = Complex

\* the robot number and the zone name a query names first
NamedRobot(q) ==
    ParseInt(q[1 + CHOOSE i \in 1..(Len(q) - 1) :
                      /\ q[i] \in {"amr", "robot"} /\ q[i + 1] \in DigitWords
                      /\ \A j \in 1..(i - 1) : ~(q[j] \in {"amr", "robot"} /\ q[j + 1] \in DigitWords)])

NamesRobot(q) == \E i \in 1..(Len(q) - 1) : q[i] \in {"amr", "robot"} /\ q[i + 1] \in DigitWords

ZoneNameOf(letter) ==
    CASE letter = "a" -> "Zone A"
      [] letter = "b" -> "Zone B"
      [] letter = "c" -> "Zone C"
      [] letter = "d" -> "Zone D"

NamesZone(q) == \E i \in 1..(Len(q) - 1) : q[i] = "zone" /\ q[i + 1] \in {"a", "b", "c"}

NamedZone(q) ==
    ZoneNameOf(q[1 + CHOOSE i \in 1..(Len(q) - 1) :
                      /\ q[i] = "zone" /\ q[i + 1] \in {"a", "b", "c"}
                      /\ \A j \in 1..(i - 1) : ~(q[j] = "zone" /\ q[j + 1] \in {"a", "b", "c"})])

RobotResolves(q) == \E i \in 1..Len(robots) : robots[i].id = NamedRobot(q)
ZoneResolves(q) == \E i \in 1..Len(zones) : zones[i].id = NamedZone(q)

\* the query names a robot or a zone, and nothing it names resolves
NothingResolves(q) ==
    /\ NamesRobot(q) \/ NamesZone(q)
    /\ NamesRobot(q) => ~RobotResolves(q)
    /\ NamesZone(q) => ~ZoneResolves(q)

\* C5: a query that names a robot id or a zone id that does not resolve in
\* the snapshot is answered with type 'error' and no data, and nothing is
\* thrown, whichever handler runs (robot, zone or complex).
C5_UnresolvedIsError ==
    (Called /\ NothingResolves(Q)) =>
        /\ ~result.thrown
        /\ result.response.type = "error"
        /\ result.response.data = NoData

\* C6: the id-only query 'AMR {id}' or 'robot {id}' of a robot present in
\* the snapshot returns type 'robot' with data.id = id, and the query
\* 'Zone {L}' of a zone present in the snapshot returns type 'zone' with
\* data.id = 'Zone L'.
C6_IdOnlyQueries ==
    Called =>
        /\ (Len(Q) = 2 /\ NamesRobot(Q) /\ RobotResolves(Q)) =>
               /\ ~result.thrown
               /\ result.response.type = "robot"
               /\ result.response.data.kind = "robot"
               /\ result.response.data.items[1].id = NamedRobot(Q)
        /\ (Len(Q) = 2 /\ NamesZone(Q) /\ ZoneResolves(Q)) =>
               /\ ~result.thrown
               /\ result.response.type = "zone"
               /\ result.response.data.kind = "zone"
               /\ result.response.data.items[1].id = NamedZone(Q)

\* 'Zone A', written with capitals, has been answered with Zone A
C6_Witness ==
    /\ query = <<"Zone", "A">>
    /\ result.response.type = "zone"
    /\ result.response.data.items[1].id = "Zone A"

\* 'robot 2' has been answered with robot 2
C6_RobotWitness ==
    /\ query = <<"robot", "2">>
    /\ result.response.type = "robot"
    /\ result.response.data.items[1].id = 2

\* the query refers to a zone by a letter other than a, b or c
NamesUnknownZone(q) == \E i \in 1..(Len(q) - 1) : q[i] = "zone" /\ q[i + 1] = "d"

Mentions(msg, text) == \E i \in 1..Len(msg) : msg[i] = text

\* C7: a query that refers to a zone by a letter other than A, B or C is
\* rejected by the zone handler: type 'error' and a message that names
\* Zone A, Zone B and Zone C.
C7_UnknownZoneRejected ==
    (Called /\ NamesUnknownZone(Q) /\ ~NamesZone(Q) /\ ~NamesRobot(Q)) =>
        /\ result.handler = "handleZoneQuery"
        /\ result.response.type = "error"
        /\ Mentions(result.message, "Zone A")
        /\ Mentions(result.message, "Zone B")
        /\ Mentions(result.message, "Zone C")

\* C8: the type of every response the engine returns is one of robot, zone,
\* multi-robot, multi-zone, overview, comparison, optimization, error, text.
C8_TypeEnumeration ==
    (Called /\ ~result.thrown) =>
        result.response.type \in {"robot", "zone", "multi-robot", "multi-zone", "overview",
                                  "comparison", "optimization", "error", "text"}

\* the maintenance handler has answered with a robot
C8_Witness ==
    /\ result.handler = "handleMaintenanceQuery"
    /\ result.response.type = "robot"
    /\ result.response.data.items[1].status = "maintenance"

\* C9: evaluating the engine again on the same query and the same snapshot
\* yields the same message and response as before, for every intent.
C9_Idempotent ==
    [][(Called /\ result'.handler # "" /\ query' = query /\ robots' = robots
        /\ zones' = zones /\ activities' = activities /\ overview' = overview)
       => result' = result]_vars

\* C10: a call leaves the robots, zones, activities and overview it was
\* given as they were, contents and order.
C10_SnapshotUntouched ==
    [][/\ robots' = robots
       /\ zones' = zones
       /\ activities' = activities
       /\ overview' = overview]_vars

\* the deployment handler has sorted the zones by pending tasks into an order
\* that is not the snapshot's
C10_Witness ==
    /\ result.handler = "handleDeploymentQuery"
    /\ result.response.title = <<"Deployment Recommendations">>
    /\ Len(zones) = 3
    /\ result.response.data.items = <<zones[2], zones[1]>>

\* the sum of the values of a Record<string, number>
SumOfValues(obj) == Sum([i \in 1..Len(obj) |-> obj[i][2]])

C11_ZoneWitness ==
    /\ result.handler = "handleCountQuery"
    /\ result.response.title = <<"Zone Count">>
    /\ Len(zones) = 3

OptimalMessage ==
    <<"The warehouse is currently operating at optimal efficiency. Continue to monitor for changes.">>

\* C12: on every snapshot, also one on which none of its thresholds is
\* reached, the optimization handler returns a secondaryData list of
\* suggestions that is not empty.
C12_SuggestionsNeverEmpty ==
    result.handler = "handleOptimizationQuery" =>
        /\ ~result.thrown
        /\ Len(result.response.metadata.secondaryData) >= 1
        /\ \A i \in 1..Len(result.response.metadata.secondaryData) :
               result.response.metadata.secondaryData[i] # <<>>

\* the optimization handler has answered on a snapshot that reaches none of
\* its thresholds
C12_Witness ==
    /\ result.handler = "handleOptimizationQuery"
    /\ robots # <<>>
    /\ result.response.metadata.secondaryData = <<OptimalMessage>>

\* the optimization handler has answered with several suggestions
C12_ManyWitness ==
    /\ result.handler = "handleOptimizationQuery"
    /\ Len(result.response.metadata.secondaryData) >= 3

(***************************************************************************)
(* The assistant pipeline: handleAIQuery with the two remote services, and *)
(* the dashboard's sendQuery with its own processComplexQuery.             *)
(***************************************************************************)

\* openai and perplexity are what the two remote calls come to, should they
\* be made: [ok, display, robotId, zoneId], a failure or an answer that
\* refers to a robot, to a zone, or to nothing
handleAIQuery(q, d, now, openai, perplexity) ==
    LET \* the first letter of a word, as a zone letter, where it is one of a, b, c
        FirstLetter(w) ==
            LET lw == ToLowerCase(w) IN
            CASE lw \in {"a", "amr", "amrs", "and", "all", "available", "analytics",
                         "activity"} -> "A"
              [] lw \in {"b", "battery", "balance"} -> "B"
              [] lw \in {"c", "compare", "charging"} -> "C"
              [] OTHER -> Null
        RemoteText == "<the remote model's text>"
        \* the direct matches both services try first, then what they make of
        \* the remote call; `active` is the status the service words as
        \* 'actively performing', `tasks` the zone's pending-task text, `plain`
        \* the type of an answer without data, `failed` the answer when the
        \* remote call fails; a service never rejects: its catch block answers
        RemoteService(h, outcome, active, tasks(_), plain, failed) ==
            LET RobotAnswer(msg, r) ==
                    Reply(h, d, msg, <<"AMR ", PadStart2(r.id), " Status">>, OneRobot(r),
                          "robot", NoMeta)
                ZoneAnswer(msg, z) ==
                    Reply(h, d, msg, <<z.id, " Status">>, OneZone(z), "zone", NoMeta)
                \* /amr (\d+)|robot (\d+)/i and /zone ([a-c])/i, leftmost match
                robotAt == {i \in 1..(Len(q) - 1) :
                               /\ ToLowerCase(q[i]) \in {"amr", "robot"}
                               /\ q[i + 1] \in DigitWords \cup PercentWords}
                zoneAt == {i \in 1..(Len(q) - 1) :
                              /\ ToLowerCase(q[i]) = "zone"
                              /\ FirstLetter(q[i + 1]) # Null}
                First(S) == CHOOSE i \in S : \A j \in S : i <= j
                robotId == ParseInt(q[1 + First(robotAt)])
                zoneId == "Zone " \o FirstLetter(q[1 + First(zoneAt)])
            IN
            IF robotAt # {} /\ HasRobot(d, robotId)
            THEN LET robot == getRobotById(d, robotId) IN
                 RobotAnswer(<<"I've located AMR ", PadStart2(robotId),
                               ". It's currently in ", robot.zoneId,
                               " with a battery level of ", ToString(robot.batteryLevel),
                               "% and is ",
                               IF robot.status = active THEN "actively performing"
                                                        ELSE "assigned to",
                               " ", Render(robot.currentTask), ".">>, robot)
            ELSE IF zoneAt # {} /\ HasZone(d, zoneId)
            THEN LET zone == getZoneById(d, zoneId) IN
                 ZoneAnswer(<<zoneId, " currently has ", ToString(zone.robotCount),
                              " active AMRs with ", tasks(zone),
                              " pending tasks. The zone efficiency is at ",
                              ToString(zone.efficiency), "% with ", zone.trafficDensity,
                              " traffic density.">>, zone)
            ELSE IF ~outcome.ok THEN Reply(h, d, failed, <<"Error">>, NoData, "error", NoMeta)
            ELSE IF outcome.display = "robot" /\ HasRobot(d, outcome.robotId)
            THEN RobotAnswer(<<RemoteText>>, getRobotById(d, outcome.robotId))
            ELSE IF outcome.display = "zone" /\ HasZone(d, outcome.zoneId)
            THEN ZoneAnswer(<<RemoteText>>, getZoneById(d, outcome.zoneId))
            ELSE Reply(h, d, <<RemoteText>>, <<"AI Response">>, NoData, plain, NoMeta)
        viaOpenAI ==
            RemoteService("openAIService.processWarehouseQuery", openai, "active",
                          LAMBDA z : ToString(z.tasksPending), "error",
                          <<"I'm sorry, I encountered an error processing your request. Please try again with a specific question about AMR locations, zone activities, or warehouse operations.">>)
        \* zone.currentTasks is not a field of a zone
        viaPerplexity ==
            RemoteService("perplexityService.processWarehouseQuery", perplexity, "working",
                          LAMBDA z : "undefined", "text",
                          <<"I'm sorry, I couldn't process your query with advanced AI capabilities. Please try asking about specific robots (AMR 1), zones (Zone A), or warehouse metrics.">>)
    IN
    IF ~viaOpenAI.thrown THEN viaOpenAI
    ELSE IF ~viaPerplexity.thrown THEN viaPerplexity
    ELSE processQuery(q, d, now)

\* a dashboard that handles no query by itself and posts every one
processComplexQueryNull(q, d, ad, now, rnd) ==
    [handled |-> FALSE, thrown |-> FALSE, message |-> <<>>, activeData |-> ad]

\* the dashboard's processComplexQuery over the robots, zones and data views
\* it was rendered with; rnd are the four Math.random() draws of a full
\* comparison.  The outcome is the message returned (handled), null (not
\* handled) or a TypeError (thrown), with the data views as they are left.
processComplexQuery(q, d, ad, now, rnd) ==
    LET NaN == 0 - 1
        IdText(id) == IF id = NaN THEN "NaN" ELSE ToString(id)
        NumberWords == DigitWords \cup PercentWords
        First(S) == CHOOSE i \in S : \A j \in S : i <= j
        WordAt(ws) == {i \in 1..Len(q) : ToLowerCase(q[i]) \in ws}
        \* query.toLowerCase().includes(needle), by the words that contain it
        Has(needle) ==
            WordAt(CASE needle = "zone" -> {"zone", "zones"}
                     [] OTHER -> {needle}) # {}
        NumsAfter(i) == Filter(q, {j \in 1..Len(q) : j > i /\ q[j] \in NumberWords})
        \* Array.from(query.matchAll(/\b(\d+)\b/g)).map(match => parseInt(match[1]))
        robotIds == LET ns == NumsAfter(0) IN [i \in 1..Len(ns) |-> ParseInt(ns[i])]
        NoMatch == [matched |-> FALSE, groups |-> <<>>]
        \* /\b(w1|w2)\b.*?\b(\d+)\b/i and the like: one of the words, then n
        \* numbers; the word is a group where the pattern brackets it
        MatchThen(ws, n, bracketed) ==
            IF WordAt(ws) = {} \/ Len(NumsAfter(First(WordAt(ws)))) < n THEN NoMatch
            ELSE [matched |-> TRUE,
                  groups |-> (IF bracketed THEN <<q[First(WordAt(ws))]>> ELSE <<>>)
                             \o Slice0(NumsAfter(First(WordAt(ws))), n)]
        \* /\b(w1|w2)\b.*?\b(v1|v2)\b.*?\b(\d+)\b/i
        MatchThenThen(ws, vs, bracketed) ==
            LET at == {i \in WordAt(ws) :
                          \E j \in WordAt(vs) : j > i /\ Len(NumsAfter(j)) >= 1}
                j0 == First({j \in WordAt(vs) : j > First(at) /\ Len(NumsAfter(j)) >= 1})
            IN  IF at = {} THEN NoMatch
                ELSE [matched |-> TRUE,
                      groups |-> <<q[First(at)]>>
                                 \o (IF bracketed THEN <<q[j0]>> ELSE <<>>)
                                 \o Slice0(NumsAfter(j0), 1)]
        \* parseInt(match[k]): NaN for a group the pattern does not have
        Group(m, k) ==
            IF k <= Len(m.groups) /\ m.groups[k] \in NumberWords
            THEN ParseInt(m.groups[k]) ELSE NaN
        \* /\b(w1|w2)\s+(v1|v2)\s+in\s+zone\s+([a-c])\b/i and
        \* /\b(w1|w2)\s+zone\s+([a-c])\b/i: the zone letter of the leftmost match
        ZoneAfter(phrases) ==
            LET at == {i \in 1..Len(q) :
                          /\ i + Len(phrases) <= Len(q)
                          /\ \A k \in 1..Len(phrases) : ToLowerCase(q[i + k - 1]) \in phrases[k]
                          /\ ToLowerCase(q[i + Len(phrases)]) \in {"a", "b", "c"}}
            IN  IF at = {} THEN NoMatch
                ELSE [matched |-> TRUE, groups |-> <<q[First(at) + Len(phrases)]>>]
        View(type, data, displayProperties, metadata, title) ==
            [type |-> type, data |-> data, displayProperties |-> displayProperties,
             metadata |-> metadata, title |-> title]
        Handled(msg, views) ==
            [handled |-> TRUE, thrown |-> FALSE, message |-> msg, activeData |-> views]
        \* reads the views of the render (ad), writes to the views being set
        createOrUpdateDataView(views, robotId, desiredProperties) ==
            LET dataKey == <<"robot_", IdText(robotId)>>
                title == <<"AMR ", PadStart2(robotId), " Information">>
            IN
            IF ~HasRobot(d, robotId) THEN views
            ELSE IF ObjHas(ad, dataKey)
            THEN LET existingData == ObjGet(ad, dataKey)
                     fresh == Filter(desiredProperties,
                                     {i \in 1..Len(desiredProperties) :
                                         \A j \in 1..Len(existingData.displayProperties) :
                                             existingData.displayProperties[j]
                                                 # desiredProperties[i]})
                 IN  ObjSet(views, dataKey,
                            [existingData EXCEPT
                                !.data = OneRobot(getRobotById(d, robotId)),
                                !.displayProperties = existingData.displayProperties \o fresh,
                                !.title = title])
            ELSE ObjSet(views, dataKey,
                        View("robot", OneRobot(getRobotById(d, robotId)), desiredProperties,
                             <<>>, title))
        \* Object.keys(activeData).forEach: removeFromActiveData of the
        \* comparison views whose key holds the id
        RemoveComparisons(views, id) ==
            Filter(views, {i \in 1..Len(views) :
                ~(ObjHas(ad, views[i][1]) /\ views[i][1][1] = "comparison_"
                  /\ \E k \in 1..Len(views[i][1]) : views[i][1][k] = IdText(id))})
        Comparison(id1, id2, comparisonType, named, extra) ==
            LET robot1 == getRobotById(d, id1)
                robot2 == getRobotById(d, id2)
                Both(v1, v2) == ObjSet(ObjSet(<<>>, robot1.name, v1), robot2.name, v2)
            IN  View("comparison", RobotList(<<robot1, robot2>>), <<>>,
                     << <<"comparisonType", comparisonType>>,
                        <<"chartData",
                          << <<"Efficiency", Both(robot1.efficiency, robot2.efficiency)>>,
                             <<"Battery", Both(robot1.batteryLevel, robot2.batteryLevel)>> >>
                          \o (IF extra
                              THEN << <<"Tasks Completed", Both(rnd[1], rnd[2])>>,
                                      <<"Utilization", Both(rnd[3], rnd[4])>> >>
                              ELSE <<>>)>> >>,
                     <<named, " Comparison: AMR ", IdText(id1), " vs AMR ", IdText(id2)>>)
        ComparisonKey(id1, id2) == <<"comparison_", IdText(id1), "_", IdText(id2)>>
        showBattery == MatchThen({"battery"}, 2, FALSE)
        addZone == MatchThen({"zone"}, 1, FALSE)
        showAllInfo == MatchThen({"all", "everything"}, 1, TRUE)
        showAnalytics == MatchThen({"analytics", "stats"}, 2, TRUE)
        removeAnalytics == MatchThenThen({"remove", "delete"}, {"analytics", "stats"}, TRUE)
        showMap == MatchThen({"map", "location"}, 1, TRUE)
        addToolInfo == MatchThen({"tool", "equipment"}, 1, TRUE)
        showEfficiency == MatchThen({"efficiency", "performance"}, 1, TRUE)
        compareRobots == MatchThen({"compare"}, 2, FALSE)
        trackActivity == MatchThenThen({"track", "monitor"}, {"activity"}, FALSE)
        idleRobotsZone == ZoneAfter(<<{"idle", "inactive", "available"}, {"robots", "amrs"},
                                      {"in"}, {"zone"}>>)
        prioritizeZone == ZoneAfter(<<{"prioritize", "priority", "urgent", "important"},
                                      {"zone"}>>)
        optimize == \E i \in 1..(Len(q) - 1) :
                        /\ ToLowerCase(q[i]) \in {"optimize", "improve", "enhance",
                                                  "distribute", "balance"}
                        /\ ToLowerCase(q[i + 1]) \in {"resources", "robots", "amrs", "tools"}
        \* the id read from a group the pattern lacks, else the n-th number
        OrNumber(m, k, n) ==
            IF Group(m, k) # NaN THEN Group(m, k)
            ELSE IF Len(robotIds) >= n THEN robotIds[n] ELSE NaN
        zoneWorkloads ==
            [i \in 1..Len(d.zones) |->
                LET zone == d.zones[i]
                    zonesRobots == RobotsInZone(d.robots, zone.id)
                IN  [zone |-> zone, robotCount |-> Len(zonesRobots),
                     activeCount |-> CountStatus(zonesRobots, "working"),
                     idleCount |-> CountStatus(zonesRobots, "idle"),
                     lowBatteryCount |-> Cardinality({k \in 1..Len(zonesRobots) :
                                             zonesRobots[k].batteryLevel < 30}),
                     trafficScore |-> LevelValue(zone.trafficDensity),
                     priorityScore |-> LevelValue(zone.priority)]]
        suggestions ==
            LET byActive == [i \in 1..Len(zoneWorkloads) |-> zoneWorkloads[i].activeCount]
                highestWorkload ==
                    SpreadSort(zoneWorkloads, [i \in 1..Len(byActive) |-> 0 - byActive[i]]).work[1]
                lowestWorkload == SpreadSort(zoneWorkloads, byActive).work[1]
                gap == highestWorkload.activeCount - lowestWorkload.activeCount
                totalLowBattery ==
                    Sum([i \in 1..Len(zoneWorkloads) |-> zoneWorkloads[i].lowBatteryCount])
                highTrafficZones ==
                    Filter(zoneWorkloads, {i \in 1..Len(zoneWorkloads) :
                                              zoneWorkloads[i].trafficScore = 3})
            IN  (IF gap >= 3
                 THEN << <<"Redistribute ", ToString(Min(3, gap \div 2)), " robots from ",
                           highestWorkload.zone.name, " to ", lowestWorkload.zone.name, ".">> >>
                 ELSE <<>>)
                \o (IF totalLowBattery > 3
                    THEN << <<"Schedule charging rotation for ", ToString(totalLowBattery),
                              " robots with low battery.">> >>
                    ELSE <<>>)
                \o (IF Len(highTrafficZones) > 0
                    THEN << <<"Reduce traffic density in ">>
                            \o Join([i \in 1..Len(highTrafficZones) |->
                                        <<highTrafficZones[i].zone.name>>], ", ")
                            \o <<" by adjusting robot pathfinding.">> >>
                    ELSE <<>>)
    IN
    IF Has("battery") /\ Len(robotIds) >= 2
    THEN Handled(<<"Displaying battery information for AMR ", IdText(robotIds[1]),
                   " and AMR ", IdText(robotIds[2]), ".">>,
                 createOrUpdateDataView(createOrUpdateDataView(ad, robotIds[1],
                                                               <<"batteryLevel">>),
                                        robotIds[2], <<"batteryLevel">>))
    ELSE IF Has("zone") /\ Len(robotIds) >= 1
    THEN Handled(<<"Added zone information for AMR ", IdText(robotIds[1]), ".">>,
                 createOrUpdateDataView(ad, robotIds[1], <<"batteryLevel", "zoneId">>))
    ELSE IF /\ Has("analytics") \/ Has("stats")
            /\ Len(robotIds) >= 2
            /\ HasRobot(d, robotIds[1]) /\ HasRobot(d, robotIds[2])
    THEN Handled(<<"Showing analytics comparison between AMR ", IdText(robotIds[1]),
                   " and AMR ", IdText(robotIds[2]), ".">>,
                 ObjSet(ad, ComparisonKey(robotIds[1], robotIds[2]),
                        Comparison(robotIds[1], robotIds[2], "analytics", "Analytics", FALSE)))
    ELSE IF Has("remove") /\ Has("analytics") /\ Has("map") /\ Len(robotIds) >= 1
    THEN Handled(<<"Removed analytics and showing map for AMR ", IdText(robotIds[1]), ".">>,
                 LET kept == RemoveComparisons(ad, robotIds[1]) IN
                 IF HasRobot(d, robotIds[1])
                 THEN ObjSet(kept, <<"map_", IdText(robotIds[1])>>,
                             View("map", OneRobot(getRobotById(d, robotIds[1])),
                                  <<"coordinates">>, <<>>,
                                  <<"AMR ", IdText(robotIds[1]), " Location">>))
                 ELSE kept)
    ELSE IF /\ showBattery.matched
            /\ OrNumber(showBattery, 5, 1) # NaN /\ OrNumber(showBattery, 8, 2) # NaN
    THEN Handled(<<"Displaying battery information for AMR ",
                   IdText(OrNumber(showBattery, 5, 1)), " and AMR ",
                   IdText(OrNumber(showBattery, 8, 2)), ".">>,
                 createOrUpdateDataView(createOrUpdateDataView(ad, OrNumber(showBattery, 5, 1),
                                                               <<"batteryLevel">>),
                                        OrNumber(showBattery, 8, 2), <<"batteryLevel">>))
    ELSE IF addZone.matched /\ OrNumber(addZone, 5, 1) # NaN
    THEN Handled(<<"Added zone information for AMR ", IdText(OrNumber(addZone, 5, 1)), ".">>,
                 createOrUpdateDataView(ad, OrNumber(addZone, 5, 1),
                                        <<"batteryLevel", "zoneId">>))
    ELSE IF showAllInfo.matched /\ OrNumber(showAllInfo, 6, 1) # NaN
    THEN Handled(<<"Showing all information for AMR ", IdText(OrNumber(showAllInfo, 6, 1)),
                   ".">>,
                 createOrUpdateDataView(ad, OrNumber(showAllInfo, 6, 1),
                                        <<"batteryLevel", "zoneId", "status", "currentTask",
                                          "currentTool", "efficiency", "coordinates">>))
    ELSE IF /\ showAnalytics.matched
            /\ HasRobot(d, IF Group(showAnalytics, 5) = NaN \/ Group(showAnalytics, 8) = NaN
                           THEN robotIds[1] ELSE Group(showAnalytics, 5))
            /\ HasRobot(d, IF Group(showAnalytics, 5) = NaN \/ Group(showAnalytics, 8) = NaN
                           THEN robotIds[2] ELSE Group(showAnalytics, 8))
    THEN LET both == Group(showAnalytics, 5) # NaN /\ Group(showAnalytics, 8) # NaN
             robotId1 == IF both THEN Group(showAnalytics, 5) ELSE robotIds[1]
             robotId2 == IF both THEN Group(showAnalytics, 8) ELSE robotIds[2]
         IN  Handled(<<"Showing analytics comparison between AMR ", IdText(robotId1),
                       " and AMR ", IdText(robotId2), ".">>,
                     ObjSet(ad, ComparisonKey(robotId1, robotId2),
                            Comparison(robotId1, robotId2, "analytics", "Analytics", FALSE)))
    ELSE IF removeAnalytics.matched /\ showMap.matched
    THEN LET removeRobotId == OrNumber(removeAnalytics, 5, 1)
             mapRobotId == IF Group(showMap, 5) # NaN THEN Group(showMap, 5)
                           ELSE IF Len(robotIds) >= 2 THEN robotIds[2]
                           ELSE IF Len(robotIds) >= 1 THEN robotIds[1] ELSE NaN
             kept == RemoveComparisons(ad, removeRobotId)
         IN  Handled(<<"Removed analytics for AMR ", IdText(removeRobotId),
                       " and showing map for AMR ", IdText(mapRobotId), ".">>,
                     IF HasRobot(d, mapRobotId)
                     THEN ObjSet(kept, <<"map_", IdText(mapRobotId)>>,
                                 View("robot", OneRobot(getRobotById(d, mapRobotId)),
                                      <<"coordinates">>, <<>>,
                                      <<"AMR ", IdText(mapRobotId), " Location Map">>))
                     ELSE kept)
    ELSE IF addToolInfo.matched
    THEN Handled(<<"Added tool information for AMR ", IdText(Group(addToolInfo, 5)), ".">>,
                 createOrUpdateDataView(ad, Group(addToolInfo, 5), <<"currentTool">>))
    ELSE IF showEfficiency.matched
    THEN Handled(<<"Showing efficiency information for AMR ",
                   IdText(Group(showEfficiency, 5)), ".">>,
                 createOrUpdateDataView(ad, Group(showEfficiency, 5), <<"efficiency">>))
    ELSE IF /\ compareRobots.matched
            /\ HasRobot(d, Group(compareRobots, 3)) /\ HasRobot(d, Group(compareRobots, 6))
    THEN Handled(<<"Comparing AMR ", IdText(Group(compareRobots, 3)), " and AMR ",
                   IdText(Group(compareRobots, 6)), ".">>,
                 ObjSet(ad, ComparisonKey(Group(compareRobots, 3), Group(compareRobots, 6)),
                        Comparison(Group(compareRobots, 3), Group(compareRobots, 6),
                                   "full", "Full", TRUE)))
    ELSE IF /\ idleRobotsZone.matched
            /\ HasZone(d, "Zone " \o ToUpperCase(ToLowerCase(idleRobotsZone.groups[1])))
    THEN LET zoneId == "Zone " \o ToUpperCase(ToLowerCase(idleRobotsZone.groups[1]))
             zone == getZoneById(d, zoneId)
             idleRobotsInZone == RobotsWithStatus(RobotsInZone(d.robots, zoneId), "idle")
         IN  IF Len(idleRobotsInZone) > 0
             THEN Handled(<<"Found ", ToString(Len(idleRobotsInZone)), " idle robots in ",
                            zone.name, ".">>,
                          ObjSet(ad, <<"idle_robots_zone_", zoneId>>,
                                 View("zone", OneZone(zone), <<>>,
                                      << <<"robots", idleRobotsInZone>>, <<"type", "idle">> >>,
                                      <<"Idle Robots in ", zone.name>>)))
             ELSE Handled(<<"No idle robots found in ", zone.name, ".">>, ad)
    ELSE IF /\ prioritizeZone.matched
            /\ HasZone(d, "Zone " \o ToUpperCase(ToLowerCase(prioritizeZone.groups[1])))
    THEN LET zoneId == "Zone " \o ToUpperCase(ToLowerCase(prioritizeZone.groups[1]))
             zone == getZoneById(d, zoneId)
         IN  Handled(<<"Updated ", zone.name,
                       " priority to HIGH. Robots will be redirected accordingly.">>,
                     ObjSet(ad, <<"priority_zone_", zoneId>>,
                            View("zone", OneZone([zone EXCEPT !.priority = "high"]), <<>>,
                                 << <<"previousPriority", zone.priority>>,
                                    <<"action", "prioritize">> >>,
                                 <<"Priority Update: ", zone.name>>)))
    ELSE IF optimize
    THEN IF Len(d.zones) = 0
         THEN [handled |-> FALSE, thrown |-> TRUE, message |-> <<>>, activeData |-> ad]
         ELSE Handled(<<"Generated ", ToString(Len(suggestions)),
                        " optimization recommendations for warehouse resources.">>,
                      ObjSet(ad, <<"optimization_", ToString(now)>>,
                             View("optimization",
                                  [kind |-> "optimization",
                                   items |-> <<[zoneWorkloads |-> zoneWorkloads,
                                                suggestions |-> suggestions]>>],
                                  <<>>, << <<"timestamp", now>>, <<"type", "resource">> >>,
                                  <<"Resource Optimization Recommendations">>)))
    ELSE IF trackActivity.matched /\ HasRobot(d, Group(trackActivity, 4))
    THEN Handled(<<"Now tracking activity for AMR ", IdText(Group(trackActivity, 4)), ".">>,
                 ObjSet(ad, <<"activities_", IdText(Group(trackActivity, 4))>>,
                        View("robot", OneRobot(getRobotById(d, Group(trackActivity, 4))),
                             <<"status", "currentTask">>,
                             \* no activity carries a robotName
                             << <<"activities", <<>> >> >>,
                             <<"AMR ", IdText(Group(trackActivity, 4)), " Activity Tracking">>)))
    ELSE [handled |-> FALSE, thrown |-> FALSE, message |-> <<>>, activeData |-> ad]

(***************************************************************************)
(* The dashboard in front of the server: one query typed into the          *)
(* assistant, over a snapshot the server holds and the dashboard shows.    *)
(***************************************************************************)

InitAssistant ==
    LET NoResult ==
            [handler |-> "", thrown |-> FALSE, message |-> <<>>,
             response |-> [title |-> <<>>, data |-> NoData, type |-> "", metadata |-> NoMeta],
             snapshot |-> <<>>]
        Snapshot(rs, zs, as) ==
            [robots |-> rs, zones |-> zs, activities |-> as,
             overview |-> [activeRobots |-> CountStatus(rs, "active"), totalRobots |-> Len(rs),
                           tasksCompleted |-> Sum([i \in 1..Len(zs) |-> zs[i].tasksCompleted]),
                           robotEfficiency |-> IF Len(rs) = 0 THEN 0
                                               ELSE Sum(EfficiencyOf(rs)) \div Len(rs)]]
        \* three robots at work in Zone A and none in Zone B
        BusyRobots ==
            << Robot(1, "active", "Zone A", 90, "Pallet Transport", "Forklift Attachment", 90, 10, 5),
               Robot(2, "active", "Zone A", 80, "Box Sorting", "Gripper Arm", 70, 12, 6),
               Robot(3, "active", "Zone A", 70, "Inventory Scanning", "Scanner Module", 80, 14, 7),
               Robot(5, "charging", "Zone C", 50, "Pick and Place", "Platform Lift", 95, 20, 28) >>
        BusyZones ==
            << Zone("Zone A", "high", BusyRobots, 4, 60, 88, "medium"),
               Zone("Zone B", "medium", BusyRobots, 3, 45, 92, "low"),
               Zone("Zone C", "low", BusyRobots, 2, 30, 75, "low") >>
        \* five robots below 30% battery, one of them charging, nothing else amiss
        DrainedRobots ==
            << Robot(1, "active", "Zone A", 25, "Pallet Transport", "Forklift Attachment", 90, 10, 5),
               Robot(2, "active", "Zone B", 20, "Box Sorting", "Gripper Arm", 70, 35, 12),
               Robot(3, "active", "Zone B", 10, "Inventory Scanning", "Scanner Module", 80, 40, 10),
               Robot(5, "charging", "Zone C", 15, "Pick and Place", "Forklift Attachment", 95, 20, 28),
               Robot(6, "active", "Zone C", 29, "Box Sorting", "Gripper Arm", 85, 22, 26) >>
        DrainedZones ==
            << Zone("Zone A", "high", DrainedRobots, 4, 60, 88, "medium"),
               Zone("Zone B", "medium", DrainedRobots, 3, 45, 92, "low"),
               Zone("Zone C", "low", DrainedRobots, 2, 30, 75, "low") >>
        ClientQueries ==
            { <<"idle", "robots", "in", "zone", "a">>,
              <<"available", "AMRs", "in", "Zone", "C">>,
              <<"idle", "robots", "in", "zone", "b">>,
              <<"optimize", "resources">>,
              <<"balance", "robots">>,
              <<"compare", "AMR", "1", "and", "AMR", "2">>,
              <<"compare", "AMR", "2", "and", "AMR", "99">>,
              <<"battery", "AMR", "1", "AMR", "2">>,
              <<"zone", "AMR", "1">>,
              <<"analytics", "1", "2">>,
              <<"remove", "analytics", "map", "1">>,
              <<"delete", "stats", "location", "2">>,
              <<"everything", "2">>,
              <<"tool", "1">>,
              <<"performance", "2">>,
              <<"track", "activity", "1">>,
              <<"prioritize", "zone", "b">>,
              <<"hello">> }
    IN
    /\ query \in ClientQueries
    /\ \E s \in { Snapshot(FleetRobots, FleetZones, FleetActivities),
                  Snapshot(SparseRobots, SparseZones, <<>>),
                  Snapshot(BusyRobots, BusyZones, FleetActivities),
                  Snapshot(DrainedRobots, DrainedZones, FleetActivities),
                  Snapshot(<<>>, <<>>, <<>>) } :
        /\ robots = s.robots
        /\ zones = s.zones
        /\ activities = s.activities
        /\ overview = s.overview
    /\ clock = 0
    /\ result = Returned(NoResult)
    /\ activeData = <<>>
    /\ assistant = Greeting
    /\ remote = NotAsked
    /\ messages = <<[role |-> "assistant", content |-> Greeting]>>
    /\ isProcessing = FALSE
    /\ storage = FreshStorage
    /\ request = [route |-> "", actor |-> ""]

\* sendQuery up to its first await: nothing while a query is processed;
\* otherwise the user's message, then the answer of processComplexQuery or
\* the apology when it handles the query or throws, and a request posted to
\* /api/query when it does not
SendQuery ==
    LET Data == [robots |-> robots, zones |-> zones, activities |-> activities,
                 overview |-> overview]
        \* Math.floor(Math.random() * 40) + 10 twice, then * 30) + 60 twice
        RandomDraws == {<<10, 10, 60, 60>>, <<49, 12, 89, 61>>}
        SorryMessage ==
            <<"I'm sorry, I encountered an error processing your request. Please try again.">>
        userMessage == [role |-> "user", content |-> query]
        Begin(complexResult) ==
            IF complexResult.thrown
            THEN /\ assistant' = SorryMessage
                 /\ messages' = messages \o <<userMessage,
                                               [role |-> "assistant", content |-> SorryMessage]>>
                 /\ UNCHANGED <<query, robots, zones, activities, overview, clock, result,
                                activeData, remote, isProcessing, storage, request>>
            ELSE IF complexResult.handled
            THEN /\ assistant' = complexResult.message
                 /\ messages' = messages \o <<userMessage,
                                               [role |-> "assistant",
                                                content |-> complexResult.message]>>
                 /\ activeData' = complexResult.activeData
                 /\ UNCHANGED <<query, robots, zones, activities, overview, clock, result,
                                remote, isProcessing, storage, request>>
            ELSE /\ messages' = Append(messages, userMessage)
                 /\ isProcessing' = TRUE
                 /\ UNCHANGED <<query, robots, zones, activities, overview, clock, result,
                                activeData, assistant, remote, storage, request>>
    IN
    IF isProcessing THEN UNCHANGED vars
    ELSE /\ Len(messages) + 2 <= MaxMessages
         /\ \E rnd \in RandomDraws :
                Begin(processComplexQuery(query, Data, activeData, clock, rnd))

\* a sendQuery that shows nothing when the request fails
SettleSilent ==
    LET Data == [robots |-> robots, zones |-> zones, activities |-> activities,
                 overview |-> overview]
        RemoteOutcomes ==
            { [ok |-> FALSE, display |-> "none", robotId |-> 0, zoneId |-> Null],
              [ok |-> TRUE, display |-> "none", robotId |-> 0, zoneId |-> Null] }
        Answer(aiResponse, openai, perplexity) ==
            /\ remote' = [asked |-> TRUE, openai |-> openai, perplexity |-> perplexity]
            /\ robots' = aiResponse.snapshot.robots
            /\ zones' = aiResponse.snapshot.zones
            /\ activities' = aiResponse.snapshot.activities
            /\ overview' = aiResponse.snapshot.overview
            /\ IF aiResponse.thrown
               THEN UNCHANGED <<assistant, messages, result>>
               ELSE /\ assistant' = aiResponse.message
                    /\ messages' = Append(messages, [role |-> "assistant",
                                                     content |-> aiResponse.message])
                    /\ result' = Returned(aiResponse)
            /\ isProcessing' = FALSE
            /\ UNCHANGED <<query, clock, activeData, storage, request>>
    IN
    /\ isProcessing
    /\ \/ /\ isProcessing' = FALSE
          /\ UNCHANGED <<query, robots, zones, activities, overview, clock, result,
                         activeData, assistant, remote, messages, storage, request>>
       \/ \E openai \in RemoteOutcomes, perplexity \in RemoteOutcomes :
              Answer(handleAIQuery(query, Data, clock, openai, perplexity), openai, perplexity)

\* sendQuery from its await on: the answer of /api/query becomes the
\* assistant's message and the shown response; a request that fails, or that
\* the server answers with an error status, gives the apology
Settle ==
    LET Data == [robots |-> robots, zones |-> zones, activities |-> activities,
                 overview |-> overview]
        RemoteOutcomes ==
            { [ok |-> FALSE, display |-> "none", robotId |-> 0, zoneId |-> Null],
              [ok |-> TRUE, display |-> "none", robotId |-> 0, zoneId |-> Null],
              [ok |-> TRUE, display |-> "robot", robotId |-> 2, zoneId |-> Null],
              [ok |-> TRUE, display |-> "zone", robotId |-> 0, zoneId |-> "Zone B"] }
        SorryMessage ==
            <<"I'm sorry, I encountered an error processing your request. Please try again.">>
        Answer(aiResponse, openai, perplexity) ==
            /\ remote' = [asked |-> TRUE, openai |-> openai, perplexity |-> perplexity]
            /\ robots' = aiResponse.snapshot.robots
            /\ zones' = aiResponse.snapshot.zones
            /\ activities' = aiResponse.snapshot.activities
            /\ overview' = aiResponse.snapshot.overview
            /\ IF aiResponse.thrown
               THEN /\ assistant' = SorryMessage
                    /\ messages' = Append(messages, [role |-> "assistant",
                                                     content |-> SorryMessage])
                    /\ UNCHANGED result
               ELSE /\ assistant' = aiResponse.message
                    /\ messages' = Append(messages, [role |-> "assistant",
                                                     content |-> aiResponse.message])
                    /\ result' = Returned(aiResponse)
            /\ isProcessing' = FALSE
            /\ UNCHANGED <<query, clock, activeData, storage, request>>
    IN
    /\ isProcessing
    /\ \/ /\ assistant' = SorryMessage
          /\ messages' = Append(messages, [role |-> "assistant", content |-> SorryMessage])
          /\ isProcessing' = FALSE
          /\ UNCHANGED <<query, robots, zones, activities, overview, clock, result,
                         activeData, remote, storage, request>>
       \/ \E openai \in RemoteOutcomes, perplexity \in RemoteOutcomes :
              Answer(handleAIQuery(query, Data, clock, openai, perplexity), openai, perplexity)

SpecAssistant == InitAssistant /\ [][SendQuery \/ Settle \/ ProcessQuery \/ Tick]_vars

\* the request the dashboard awaits is answered or fails in the end
SpecAssistantLive == SpecAssistant /\ WF_vars(Settle)

(***************************************************************************)
(* Properties of the assistant pipeline (checked under SpecAssistant).     *)
(***************************************************************************)

\* the query is 'compare AMR a and AMR b' for two distinct robots of the snapshot
ComparesTwoRobots ==
    /\ Len(query) = 6
    /\ <<query[1], query[2], query[4], query[5]>> = <<"compare", "AMR", "and", "AMR">>
    /\ query[3] \in DigitWords /\ query[6] \in DigitWords
    /\ query[3] # query[6]
    /\ \E i, j \in 1..Len(robots) : /\ robots[i].id = ParseInt(query[3])
                                    /\ robots[j].id = ParseInt(query[6])

\* the assistant has answered the query: the dashboard by itself or through
\* the server, or the engine called directly
Answered == assistant # Greeting \/ Called

\* C13: once 'compare AMR a and AMR b' (a, b distinct robots of the snapshot)
\* is answered, the response is of type 'comparison' and its
\* metadata.chartData.Efficiency maps both robots' names to their efficiency
C13_CompareIsComparison ==
    (ComparesTwoRobots /\ Answered) =>
        LET Efficiency(chartData) ==
                /\ ObjHas(chartData, "Efficiency")
                /\ \A i \in 1..Len(robots) :
                      robots[i].id \in {ParseInt(query[3]), ParseInt(query[6])} =>
                          /\ ObjHas(ObjGet(chartData, "Efficiency"), robots[i].name)
                          /\ ObjGet(ObjGet(chartData, "Efficiency"), robots[i].name)
                                 = robots[i].efficiency
        IN  \/ /\ result.response.type = "comparison"
               /\ Efficiency(result.response.metadata.chartData)
            \/ \E k \in 1..Len(activeData) :
                  /\ activeData[k][2].type = "comparison"
                  /\ ObjHas(activeData[k][2].metadata, "chartData")
                  /\ Efficiency(ObjGet(activeData[k][2].metadata, "chartData"))

\* the text of a message kept as its pieces
RECURSIVE Text(_)
Text(pieces) == IF pieces = <<>> THEN "" ELSE Head(pieces) \o Text(Tail(pieces))

\* the query is 'idle robots in zone z', the snapshot has Zone Z, and no
\* robot of Zone Z is idle
AsksIdleWhereNone(z) ==
    /\ Len(query) = 5
    /\ [i \in 1..5 |-> ToLowerCase(query[i])] = <<"idle", "robots", "in", "zone", z>>
    /\ \E i \in 1..Len(zones) : zones[i].id = "Zone " \o ToUpperCase(z)
    /\ \A i \in 1..Len(robots) :
          ~(robots[i].zoneId = "Zone " \o ToUpperCase(z) /\ robots[i].status = "idle")

C14_OtherZoneWitness ==
    /\ AsksIdleWhereNone("b")
    /\ Len(robots) = 5
    /\ Text(assistant) = "No idle robots found in Zone B."

\* the robots below 30% battery, whatever their status
LowBattery == {i \in 1..Len(robots) : robots[i].batteryLevel < 30}

\* none of the other conditions that make a suggestion: a robot in
\* maintenance, an idle robot while a zone has more than 5 tasks pending, a
\* zone of high traffic, a tool held by more than a third of the fleet, two
\* zones whose counts of active robots differ by 3 or more
NoOtherTrigger ==
    /\ CountStatus(robots, "maintenance") = 0
    /\ ~(CountStatus(robots, "idle") > 0 /\ \E i \in 1..Len(zones) : zones[i].tasksPending > 5)
    /\ \A i \in 1..Len(zones) : zones[i].trafficDensity # "high"
    /\ toolsToRedistribute(robots) = <<>>
    /\ \A i, j \in 1..Len(zones) :
          CountStatus(RobotsInZone(robots, zones[i].id), "active")
              - CountStatus(RobotsInZone(robots, zones[j].id), "active") < 3

\* exactly one of the suggestions schedules charging, and it names n robots
ChargingOnce(suggestions, n) ==
    LET charging == {i \in 1..Len(suggestions) :
                        suggestions[i][1] \in {"Schedule ", "Schedule charging rotation for "}}
    IN  /\ Cardinality(charging) = 1
        /\ \A i \in charging : suggestions[i][2] = ToString(n)

OptimizeResources == query = <<"optimize", "resources">>

\* C15: 'optimize resources' on a snapshot with 5 robots below 30% battery
\* and no other trigger: the suggestions hold exactly one charging
\* suggestion and it mentions 5, whatever the status of the five, in the
\* dashboard's recommendations and in the engine's
C15_ChargingCountsEveryStatus ==
    (OptimizeResources /\ Cardinality(LowBattery) = 5 /\ NoOtherTrigger) =>
        /\ result.handler = "handleOptimizationQuery" =>
               ChargingOnce(result.response.metadata.secondaryData, 5)
        /\ \A k \in 1..Len(activeData) :
               activeData[k][2].type = "optimization" =>
                   ChargingOnce(activeData[k][2].data.items[1].suggestions, 5)

\* the server was asked, the query gives the services nothing to match
\* directly (no 'amr', 'robot' or 'zone'), and both remote calls fail
BothRemoteCallsFail ==
    /\ remote.asked
    /\ \A i \in 1..Len(query) : ToLowerCase(query[i]) \notin {"amr", "robot", "zone"}
    /\ ~remote.openai.ok
    /\ ~remote.perplexity.ok

\* C16: when the OpenAI call fails and the Perplexity call fails, what
\* handleAIQuery returns is what the local engine's processQuery computes
C16_LocalEngineLast ==
    BothRemoteCallsFail =>
        \E now \in 0..clock :
            result = Returned(processQuery(query, [robots |-> robots, zones |-> zones,
                                                   activities |-> activities,
                                                   overview |-> overview], now))

\* the counts of active robots of the zones differ by gap or more
ActiveGap(gap) ==
    \E i, j \in 1..Len(zones) :
        CountStatus(RobotsInZone(robots, zones[i].id), "active")
            - CountStatus(RobotsInZone(robots, zones[j].id), "active") >= gap

\* C19: the dashboard's recommendations propose a move of robots between
\* zones when the highest and the lowest count of active robots differ by 3
\* or more, and none when they differ by less
C19_MoveWhenGapOfThree ==
    \A k \in 1..Len(activeData) :
        activeData[k][2].type = "optimization" =>
            LET suggestions == activeData[k][2].data.items[1].suggestions IN
            ActiveGap(3) <=> \E i \in 1..Len(suggestions) : suggestions[i][1] = "Redistribute "

(***************************************************************************)
(* Further properties of the engine (checked under Spec).                  *)
(***************************************************************************)

\* C17: every robot id the engine renders in a message, a title or a
\* chartData key is zero-padded to width 2: none reads 'AMR 1' for 'AMR 01'
C17_IdsZeroPadded ==
    LET Unpadded == {AmrPlain(n) : n \in 0..9}
        metadata == result.response.metadata
    IN  /\ \A i \in 1..Len(result.message) : result.message[i] \notin Unpadded
        /\ \A i \in 1..Len(result.response.title) : result.response.title[i] \notin Unpadded
        /\ \A i \in 1..Len(metadata.chartData) : metadata.chartData[i][1] \notin Unpadded

(***************************************************************************)
(* The engine's deployment handler called by itself, on the queries its    *)
(* branches distinguish.                                                   *)
(***************************************************************************)

InitHandlers ==
    LET NoResult ==
            [handler |-> "", thrown |-> FALSE, message |-> <<>>,
             response |-> [title |-> <<>>, data |-> NoData, type |-> "", metadata |-> NoMeta],
             snapshot |-> <<>>]
    IN
    /\ query \in { <<"deploy">>, <<"balance">>, <<"rebalance", "zone", "a">>,
                   <<"deploy", "zone", "a">>, <<"deploy", "zone", "b">>,
                   <<"deploy", "Zone", "C">>, <<"deploy", "zone", "d">>,
                   <<"send", "1", "robots", "zone", "b">>,
                   <<"move", "3", "AMRs", "zone", "a">>,
                   <<"assign", "5", "robots", "zone", "c">>,
                   <<"dispatch", "2", "amrs", "Zone", "B">>, <<"even", "out">> }
    /\ \E s \in Snapshots :
        /\ robots = s.robots
        /\ zones = s.zones
        /\ activities = s.activities
        /\ overview = s.overview
    /\ clock = 0
    /\ result = Returned(NoResult)
    /\ activeData = <<>>
    /\ assistant = Greeting
    /\ remote = NotAsked
    /\ messages = <<[role |-> "assistant", content |-> Greeting]>>
    /\ isProcessing = FALSE
    /\ storage = FreshStorage
    /\ request = [route |-> "", actor |-> ""]

HandleDeploymentQuery ==
    LET out == handleDeploymentQuery(Normalize(query),
                                     [robots |-> robots, zones |-> zones,
                                      activities |-> activities, overview |-> overview])
    IN
    /\ result' = Returned(out)
    /\ robots' = out.snapshot.robots
    /\ zones' = out.snapshot.zones
    /\ activities' = out.snapshot.activities
    /\ overview' = out.snapshot.overview
    /\ UNCHANGED <<query, clock, activeData, assistant, remote, messages, isProcessing,
                   storage, request>>

SpecHandlers == InitHandlers /\ [][HandleDeploymentQuery \/ Tick]_vars

(***************************************************************************)
(* Properties of the handlers (checked under SpecHandlers).                *)
(***************************************************************************)

\* the deployment handler answered with a plan for a target zone
TargetedPlan ==
    /\ result.handler = "handleDeploymentQuery"
    /\ ~result.thrown
    /\ Len(result.response.title) = 2
    /\ result.response.title[1] = "Deployment Plan for "

SortedRobotList ==
    /\ result.handler = "handleComparisonQuery" /\ ~result.thrown
    /\ result.response.title \in {<<"Robot ", "Battery Level", " Comparison">>,
                                  <<"Robot ", "Efficiency", " Comparison">>}

SortedZoneList ==
    /\ result.handler = "handleComparisonQuery" /\ ~result.thrown
    /\ result.response.title = <<"Zone Efficiency Comparison">>

\* C20: a sorted-list answer of the comparison handler, for robots or for
\* zones, has response.data in descending order of the attribute its message
\* names, and the entity the message quotes as highest or most efficient has
\* the greatest value of that attribute in the snapshot
C20_SortedListDescending ==
    LET items == result.response.data.items
        Value(x) == IF result.message[2] = "battery level" THEN x.batteryLevel
                    ELSE x.efficiency
        Descending == \A i, j \in 1..Len(items) : i < j => Value(items[i]) >= Value(items[j])
    IN  /\ SortedRobotList =>
               /\ Descending
               /\ \E i \in 1..Len(robots) :
                     /\ result.message[4] = AmrPlain(robots[i].id)
                     /\ result.message[6] = ToString(Value(robots[i]))
                     /\ \A j \in 1..Len(robots) : Value(robots[i]) >= Value(robots[j])
        /\ SortedZoneList =>
               /\ Descending
               /\ \E i \in 1..Len(zones) :
                     /\ result.message[2] = zones[i].name
                     /\ result.message[4] = ToString(zones[i].efficiency)
                     /\ \A j \in 1..Len(zones) : zones[i].efficiency >= zones[j].efficiency

(***************************************************************************)
(* Properties of the optimization and deployment recommendations (checked  *)
(* under Spec).                                                            *)
(***************************************************************************)
\* the optimization handler has answered
Optimized == Called /\ ~result.thrown /\ result.handler = "handleOptimizationQuery"

\* the answer holds the tool-redistribution suggestion
SuggestsTools ==
    \E i \in 1..Len(result.response.metadata.secondaryData) :
        LET s == result.response.metadata.secondaryData[i]
        IN  s[1] = "Redistribute " /\ s[Len(s)] = " tools more evenly across AMRs"

\* the number of robots of the fleet that hold the tool of robot i
SameTool(i) == Cardinality({j \in 1..Len(robots) : robots[j].currentTool = robots[i].currentTool})

\* C21, as stated: the tool-redistribution suggestion is made exactly when
\* some tool is held by strictly more than one third of the fleet
\* (count * 3 > robots.length), whatever the size of the fleet.
C21_ToolsOverOneThird ==
    Optimized => (SuggestsTools <=> \E i \in 1..Len(robots) : SameTool(i) * 3 > Len(robots))

\* C21, amended: the tool-redistribution suggestion is made exactly when
\* some tool is held by more robots than one third of the fleet rounded up
\* (count > Math.ceil(robots.length / 3)).
C21_ToolsOverCeilOfThird ==
    Optimized =>
        (SuggestsTools <=>
            \E i \in 1..Len(robots) : SameTool(i) > (Len(robots) + 2) \div 3)

\* the suggestion is made for a fleet whose size is not a multiple of three
C21_Witness == Optimized /\ SuggestsTools /\ Len(robots) % 3 # 0

\* no suggestion for a fleet of four with two robots on the same tool
C21_BelowCeilWitness ==
    Optimized /\ ~SuggestsTools /\ \E i \in 1..Len(robots) : SameTool(i) * 3 > Len(robots)

\* the complex handler has answered a query on which the efficiency detector fires
ComplexWithEfficiency ==
    /\ Called /\ ~result.thrown /\ result.handler = "handleComplexQuery"
    /\ efficiencyPattern(Normalize(query))

\* the returned message holds the recommendations block
HasRecommendationsBlock ==
    \E i \in 1..Len(result.message) : result.message[i] = "Efficiency Recommendations:"

\* one of the combinations the complex handler answers by itself
SpecialCombination ==
    LET q == Normalize(query)
    IN  \/ zoneIdPattern(q) /\ batteryPattern(q) /\ efficiencyPattern(q)
        \/ toolPattern(q) /\ batteryPattern(q)
        \/ comparePattern(q) /\ zoneIdPattern(q) /\ efficiencyPattern(q)

\* C22, as stated: whenever the efficiency detector fired on a query the
\* complex handler answered, the message holds the 'Efficiency
\* Recommendations' block, on every return path of the handler.
C22_RecommendationsOnEveryPath == ComplexWithEfficiency => HasRecommendationsBlock

\* C22, amended: the block is in the message of the generic analysis
\* whenever the efficiency detector fired, and in no answer of the three
\* special-cased combinations.
C22_RecommendationsOnGenericPath ==
    ComplexWithEfficiency => (HasRecommendationsBlock <=> ~SpecialCombination)

\* a generic analysis with the block
C22_Witness == ComplexWithEfficiency /\ ~SpecialCombination /\ HasRecommendationsBlock

\* a special-cased answer without it
C22_SpecialWitness == ComplexWithEfficiency /\ SpecialCombination /\ ~HasRecommendationsBlock

\* the deployment handler has answered with a plan for a target zone
TargetZonePlan ==
    /\ Called /\ ~result.thrown /\ Len(result.response.title) > 0
    /\ result.response.title[1] \in {"Deployment Plan for ", "Deployment to "}

\* C26: through processQuery the target-zone branch of the deployment
\* handler never runs: a query on which the zone-id detector fires is
\* answered by the complex, the robot or the zone handler, and no answer is
\* a deployment plan for a zone.
C26_NoTargetZonePlan ==
    /\ ~TargetZonePlan
    /\ (Called /\ zoneIdPattern(Normalize(query)))
        => result.handler \in {"handleComplexQuery", "handleRobotQuery", "handleZoneQuery"}

\* a query that names a zone and asks for a deployment, answered by the
\* zone handler
C26_Witness ==
    /\ Called /\ zoneIdPattern(Normalize(query)) /\ deploymentPattern(Normalize(query))
    /\ result.handler = "handleZoneQuery"

\* the redistribution path has answered with a plan
RedistributionPlan ==
    Called /\ ~result.thrown /\ result.response.title = <<"Robot Redistribution Plan">>

\* the moves of the plan that take a robot from zone z
MovesFrom(z) ==
    {i \in 1..Len(result.response.metadata.secondaryData) :
        result.response.metadata.secondaryData[i][4] = z}

\* C27: in a redistribution plan no robot is named in more than one move,
\* every move takes a robot of the source zone that is not in maintenance,
\* and each low priority source zone keeps at least one of its robots that
\* are not in maintenance.
C27_RedistributionKeepsOne ==
    RedistributionPlan =>
        LET moves == result.response.metadata.secondaryData
            Staff(z) == {i \in 1..Len(robots) :
                            robots[i].zoneId = z /\ robots[i].status # "maintenance"}
        IN  /\ \A i, j \in 1..Len(moves) : i # j => moves[i][2] # moves[j][2]
            /\ \A i \in 1..Len(moves) :
                  \E r \in Staff(moves[i][4]) : moves[i][2] = AmrPlain(robots[r].id)
            /\ \A z \in 1..Len(zones) :
                  MovesFrom(zones[z].id) # {}
                      => Cardinality(MovesFrom(zones[z].id)) < Cardinality(Staff(zones[z].id))

\* a plan that moves robots out of two source zones into two target zones,
\* two of them out of the same zone
C27_Witness ==
    /\ RedistributionPlan
    /\ \E y, z \in 1..Len(zones) :
          /\ y # z /\ Cardinality(MovesFrom(zones[y].id)) >= 2 /\ MovesFrom(zones[z].id) # {}
    /\ \E i, j \in 1..Len(result.response.metadata.secondaryData) :
          result.response.metadata.secondaryData[i][6]
              # result.response.metadata.secondaryData[j][6]

\* C25: the selective-property handlers of the dashboard fall back to the
\* digit sequences of the query when a capture group yields no number, so
\* for a query that holds a digit sequence no handler reports an action for
\* a robot id that is not a number (NaN).
C25_NoActionForNaN ==
    (\E i \in 1..Len(query) : query[i] \in DigitWords)
        => \A i \in 1..Len(assistant) : assistant[i] # "NaN"

(***************************************************************************)
(* Properties of the chat (checked under SpecAssistantLive).               *)
(***************************************************************************)
\* the chat gained exactly the messages added, in this order
Appended(added) == messages' = messages \o added

\* C30: a sendQuery call accepted while isProcessing is false appends one
\* user message followed by one assistant message and in the end leaves
\* isProcessing false, whether the dashboard answers by itself, the server
\* answers or the request fails; a call made while isProcessing is true
\* appends nothing.
C30_OneAnswerPerQuery ==
    /\ [][IF isProcessing
          THEN \/ UNCHANGED <<messages, isProcessing>>
               \/ /\ ~isProcessing'
                  /\ \E content \in {assistant'} :
                        Appended(<<[role |-> "assistant", content |-> content]>>)
          ELSE \/ UNCHANGED <<messages, isProcessing>>
               \/ /\ isProcessing'
                  /\ Appended(<<[role |-> "user", content |-> query]>>)
               \/ /\ ~isProcessing'
                  /\ Appended(<<[role |-> "user", content |-> query],
                                [role |-> "assistant", content |-> assistant']>>)]_vars
    /\ [](messages[Len(messages)].role = (IF isProcessing THEN "user" ELSE "assistant"))
    /\ [](\A i \in 2..Len(messages) : messages[i].role # messages[i - 1].role)
    /\ (isProcessing ~> ~isProcessing)

\* two queries answered, the first by the server and the second by the
\* apology
C30_Witness ==
    /\ ~isProcessing /\ Len(messages) = 5 /\ remote.asked
    /\ messages[3].content # messages[5].content
    /\ Text(messages[5].content)
           = "I'm sorry, I encountered an error processing your request. Please try again."

\* a query the dashboard answered by itself
C30_LocalWitness ==
    /\ ~isProcessing /\ Len(messages) = 3 /\ ~remote.asked /\ activeData # <<>>

\* a query waiting for the server
C30_PendingWitness == isProcessing /\ Len(messages) = 4

(***************************************************************************)
(* The server: WarehouseDataManager, MemStorage and the audited routes      *)
(***************************************************************************)

\* the most users the store is filled with
MaxUsers == 2

\* the longest activity log an audited operation is started with
MaxLog == 23

\* the most generated entries the interval leaves in the log
MaxGenerated == 1

\* MemStorage.addActivity: the newest entry first, one entry dropped above a hundred
addActivity(log, activity) ==
    LET unshifted == <<activity>> \o log
    IN  IF Len(unshifted) > 100 THEN SubSeq(unshifted, 1, Len(unshifted) - 1) ELSE unshifted

\* MemStorage.createUser: the body's fields under the next id
createUser(st, insertUser) ==
    [st EXCEPT !.users = ObjSet(st.users, st.currentId,
                                [id |-> st.currentId, username |-> insertUser.username,
                                 role |-> insertUser.role]),
               !.currentId = st.currentId + 1]

\* MemStorage.getUserPermissions deaf to denials: the names of the role's permissions that are
\* not denied to the user, then of the permissions granted to the user only
getUserPermissionsNoDenial(st, userId) ==
    IF ~ObjHas(st.users, userId) THEN <<>>
    ELSE
    LET role == ObjGet(st.users, userId).role
        rolePerms == IF ObjHas(st.rolePermissionsList, role)
                     THEN ObjGet(st.rolePermissionsList, role) ELSE <<>>
        userPerms == IF ObjHas(st.userPermissionsList, userId)
                     THEN ObjGet(st.userPermissionsList, userId) ELSE <<>>
        fromRole == Filter(rolePerms, {i \in 1..Len(rolePerms) :
                        /\ ObjHas(st.permissionsList, rolePerms[i])
                        /\ TRUE})
        granted == Filter(userPerms, {i \in 1..Len(userPerms) :
                        /\ userPerms[i][2]
                        /\ ~\E j \in 1..Len(rolePerms) : rolePerms[j] = userPerms[i][1]
                        /\ ObjHas(st.permissionsList, userPerms[i][1])})
    IN  [i \in 1..Len(fromRole) |-> ObjGet(st.permissionsList, fromRole[i])]
        \o [i \in 1..Len(granted) |-> ObjGet(st.permissionsList, granted[i][1])]

\* MemStorage.getUserPermissions: the names of the role's permissions that are
\* not denied to the user, then of the permissions granted to the user only
getUserPermissions(st, userId) ==
    IF ~ObjHas(st.users, userId) THEN <<>>
    ELSE
    LET role == ObjGet(st.users, userId).role
        rolePerms == IF ObjHas(st.rolePermissionsList, role)
                     THEN ObjGet(st.rolePermissionsList, role) ELSE <<>>
        userPerms == IF ObjHas(st.userPermissionsList, userId)
                     THEN ObjGet(st.userPermissionsList, userId) ELSE <<>>
        fromRole == Filter(rolePerms, {i \in 1..Len(rolePerms) :
                        /\ ObjHas(st.permissionsList, rolePerms[i])
                        /\ (~ObjHas(userPerms, rolePerms[i]) \/ ObjGet(userPerms, rolePerms[i]))})
        granted == Filter(userPerms, {i \in 1..Len(userPerms) :
                        /\ userPerms[i][2]
                        /\ ~\E j \in 1..Len(rolePerms) : rolePerms[j] = userPerms[i][1]
                        /\ ObjHas(st.permissionsList, userPerms[i][1])})
    IN  [i \in 1..Len(fromRole) |-> ObjGet(st.permissionsList, fromRole[i])]
        \o [i \in 1..Len(granted) |-> ObjGet(st.permissionsList, granted[i][1])]

\* MemStorage.deleteUser: the user and the user's overrides go, and the
\* deletion of a user who existed is recorded
deleteUser(st, log, id, now) ==
    LET deleted == ObjHas(st.users, id) IN
    [storage |-> [st EXCEPT
                     !.users = Filter(st.users, {i \in 1..Len(st.users) : st.users[i][1] # id}),
                     !.userPermissionsList =
                         Filter(st.userPermissionsList,
                                {i \in 1..Len(st.userPermissionsList) :
                                     st.userPermissionsList[i][1] # id})],
     activities |-> IF deleted
                    THEN addActivity(log, [id |-> now, type |-> "user",
                                           iconName |-> "user-minus",
                                           message |-> "User ID " \o ToString(id)
                                                           \o " was deleted from the system"])
                    ELSE log]

\* MemStorage.setUserPermission: the override enters the user's map, which is
\* created at the first override
setUserPermission(st, userId, permissionId, hasPermission) ==
    LET userPerms == IF ObjHas(st.userPermissionsList, userId)
                     THEN ObjGet(st.userPermissionsList, userId) ELSE <<>>
    IN  [st EXCEPT !.userPermissionsList =
            ObjSet(st.userPermissionsList, userId,
                   ObjSet(userPerms, permissionId, hasPermission))]

\* WarehouseDataManager.updateRobotPositions without the departure from the old zone
updateRobotPositionsNoDeparture(rs, zs, moves) ==
    LET Clamp(lo, hi, v) == IF v < lo THEN lo ELSE IF v > hi THEN hi ELSE v
        newX(i) == Clamp(0, 500, rs[i].coordinates.x + moves[i][1])
        newY(i) == Clamp(0, 300, rs[i].coordinates.y + moves[i][2])
        newZoneId(i) == IF rs[i].status # "active" THEN rs[i].zoneId
                        ELSE IF newX(i) > 300 THEN "Zone B"
                        ELSE IF newY(i) > 200 THEN "Zone C"
                        ELSE "Zone A"
        Arrived(zid) == Cardinality({i \in 1..Len(rs) :
                            newZoneId(i) # rs[i].zoneId /\ newZoneId(i) = zid})
    IN  [robots |-> [i \in 1..Len(rs) |->
                        IF rs[i].status = "active"
                        THEN [rs[i] EXCEPT !.zoneId = newZoneId(i),
                                           !.coordinates = [x |-> newX(i), y |-> newY(i)]]
                        ELSE rs[i]],
         zones |-> [k \in 1..Len(zs) |->
                        [zs[k] EXCEPT !.robotCount = zs[k].robotCount + Arrived(zs[k].id)]]]

\* WarehouseDataManager.updateRobotPositions: each active robot moves by less
\* than one unit inside the floor, its zone follows its position and the two
\* zones' counts follow the robot; coordinates are in tenths of a unit
updateRobotPositions(rs, zs, moves) ==
    LET Clamp(lo, hi, v) == IF v < lo THEN lo ELSE IF v > hi THEN hi ELSE v
        newX(i) == Clamp(0, 500, rs[i].coordinates.x + moves[i][1])
        newY(i) == Clamp(0, 300, rs[i].coordinates.y + moves[i][2])
        newZoneId(i) == IF rs[i].status # "active" THEN rs[i].zoneId
                        ELSE IF newX(i) > 300 THEN "Zone B"
                        ELSE IF newY(i) > 200 THEN "Zone C"
                        ELSE "Zone A"
        Left(zid) == Cardinality({i \in 1..Len(rs) :
                            newZoneId(i) # rs[i].zoneId /\ rs[i].zoneId = zid})
        Arrived(zid) == Cardinality({i \in 1..Len(rs) :
                            newZoneId(i) # rs[i].zoneId /\ newZoneId(i) = zid})
    IN  [robots |-> [i \in 1..Len(rs) |->
                        IF rs[i].status = "active"
                        THEN [rs[i] EXCEPT !.zoneId = newZoneId(i),
                                           !.coordinates = [x |-> newX(i), y |-> newY(i)]]
                        ELSE rs[i]],
         zones |-> [k \in 1..Len(zs) |->
                        [zs[k] EXCEPT !.robotCount =
                            zs[k].robotCount - Left(zs[k].id) + Arrived(zs[k].id)]]]

\* the user passport loads for a client whose session holds the user id c
\* (0 for a client without a session): nothing when the user is gone
ReqUser(c) ==
    IF c \in storage.sessions /\ ObjHas(storage.users, c)
    THEN ObjGet(storage.users, c)
    ELSE [id |-> 0, username |-> Null, role |-> "anonymous"]

\* the state after WarehouseDataManager.initializeData and MemStorage's
\* constructor: two of the robots near the corner where the three zones meet,
\* the three zones counting their active robots, and twenty activities
InitServer ==
    LET NoResult ==
            [handler |-> "", thrown |-> FALSE, message |-> <<>>,
             response |-> [title |-> <<>>, data |-> NoData, type |-> "", metadata |-> NoMeta],
             snapshot |-> <<>>]
        rs == << Robot(1, "active", "Zone A", 80, "Pallet Transport", "Gripper Arm", 90, 300, 200),
                 Robot(2, "idle", "Zone A", 60, "Box Sorting", "Scanner Module", 85, 120, 80) >>
    IN
    /\ query = <<>>
    /\ robots = rs
    /\ zones = << Zone("Zone A", "high", rs, 8, 60, 90, "medium"),
                  Zone("Zone B", "medium", rs, 6, 50, 85, "high"),
                  Zone("Zone C", "low", rs, 2, 40, 80, "low") >>
    /\ activities = [i \in 1..20 |->
                        [id |-> i, type |-> "system", iconName |-> "line-chart-line",
                         message |-> "Performance metrics updated"]]
    /\ overview = [activeRobots |-> CountStatus(rs, "active"), totalRobots |-> Len(rs),
                   tasksCompleted |-> 60 + 50 + 40,
                   robotEfficiency |-> Sum(EfficiencyOf(rs)) \div Len(rs)]
    /\ clock = 0
    /\ result = Returned(NoResult)
    /\ activeData = <<>>
    /\ assistant = Greeting
    /\ remote = NotAsked
    /\ messages = <<[role |-> "assistant", content |-> Greeting]>>
    /\ isProcessing = FALSE
    /\ storage = FreshStorage
    /\ request = [route |-> "", actor |-> ""]

\* the broadcast interval of one WebSocket connection: the robots move, and
\* now and then a generated activity enters the log, which loses its oldest
\* entry above twenty
Interval ==
    \E moves \in {m \in [1..Len(robots) -> {-5, 0, 5} \X {-5, 0, 5}] :
                        \A i \in 1..Len(robots) :
                            robots[i].status # "active" => m[i] = <<0, 0>>},
       random \in {5, 9} :
        LET moved == updateRobotPositions(robots, zones, moves)
            newActivity == [id |-> clock, type |-> "system", iconName |-> "wifi-line",
                            message |-> "Network performance optimized"]
            unshifted == <<newActivity>> \o activities
        IN
        /\ \A i \in 1..Len(robots) :
              robots[i].status = "active" =>
                  /\ moved.robots[i].coordinates.x \in {300, 305}
                  /\ moved.robots[i].coordinates.y \in {200, 205}
        /\ robots' = moved.robots
        /\ zones' = moved.zones
        /\ IF random > 7
           THEN /\ Cardinality({i \in 1..Len(activities) :
                                    activities[i].iconName = "wifi-line"}) < MaxGenerated
                /\ activities' = IF Len(unshifted) > 20
                                 THEN SubSeq(unshifted, 1, Len(unshifted) - 1)
                                 ELSE unshifted
           ELSE UNCHANGED activities
        /\ request' = [route |-> "interval", actor |-> "server"]
        /\ UNCHANGED <<query, overview, clock, result, activeData, assistant, remote,
                       messages, isProcessing, storage>>

\* POST /api/register: a new account from the body, role included, for a
\* username not in use; the client is logged in as the new user
Register ==
    \E c \in storage.sessions \cup {0}, username \in {"admin", "eve"},
       role \in {"admin", "viewer"} :
        /\ Len(activities) < MaxLog
        /\ storage.currentId <= MaxUsers
        /\ request' = [route |-> "POST /api/register", actor |-> ReqUser(c).role]
        /\ IF \E i \in 1..Len(storage.users) : storage.users[i][2].username = username
           THEN UNCHANGED <<storage, activities>>
           ELSE /\ storage' = [createUser(storage, [username |-> username, role |-> role])
                                  EXCEPT !.sessions = (storage.sessions \ {c})
                                                          \cup {storage.currentId}]
                /\ activities' = addActivity(activities,
                                    [id |-> clock, type |-> "user", iconName |-> "user-plus",
                                     message |-> "New user " \o username \o " registered"])
        /\ UNCHANGED <<query, robots, zones, overview, clock, result, activeData, assistant,
                       remote, messages, isProcessing>>

\* POST /api/login: the local strategy records the login of a user whose
\* password matches, and the client's session holds the user
Login ==
    \E c \in storage.sessions \cup {0}, username \in {"admin", "eve", "mallory"},
       passwordMatch \in BOOLEAN :
        LET found == {i \in 1..Len(storage.users) : storage.users[i][2].username = username}
            user == storage.users[CHOOSE i \in found : \A j \in found : i <= j][2]
        IN
        /\ Len(activities) < MaxLog
        /\ request' = [route |-> "POST /api/login", actor |-> ReqUser(c).role]
        /\ IF found = {} \/ ~passwordMatch
           THEN UNCHANGED <<storage, activities>>
           ELSE /\ storage' = [storage EXCEPT !.sessions = (storage.sessions \ {c})
                                                               \cup {user.id}]
                /\ activities' = addActivity(activities,
                                    [id |-> clock, type |-> "user", iconName |-> "log-in",
                                     message |-> "User " \o user.username \o " logged in"])
        /\ UNCHANGED <<query, robots, zones, overview, clock, result, activeData, assistant,
                       remote, messages, isProcessing>>

\* POST /api/logout: the logout of a logged-in user is recorded, and the
\* session ends
Logout ==
    \E c \in storage.sessions \cup {0} :
        /\ Len(activities) < MaxLog
        /\ request' = [route |-> "POST /api/logout", actor |-> ReqUser(c).role]
        /\ activities' = IF ReqUser(c).id # 0
                         THEN addActivity(activities,
                                  [id |-> clock, type |-> "user", iconName |-> "log-out",
                                   message |-> "User " \o ReqUser(c).username \o " logged out"])
                         ELSE activities
        /\ storage' = [storage EXCEPT !.sessions = storage.sessions \ {c}]
        /\ UNCHANGED <<query, robots, zones, overview, clock, result, activeData, assistant,
                       remote, messages, isProcessing>>

\* POST /api/users behind requirePermission(user:create): the parsed body
\* becomes a new account
PostUsers ==
    \E c \in storage.sessions \cup {0}, username \in {"eve"}, role \in {"admin", "viewer"} :
        /\ Len(activities) < MaxLog
        /\ storage.currentId <= MaxUsers
        /\ request' = [route |-> "POST /api/users", actor |-> ReqUser(c).role]
        /\ IF ReqUser(c).id = 0
              \/ ~\E i \in 1..Len(getUserPermissions(storage, ReqUser(c).id)) :
                      getUserPermissions(storage, ReqUser(c).id)[i] = "user:create"
           THEN UNCHANGED <<storage, activities>>
           ELSE /\ storage' = createUser(storage, [username |-> username, role |-> role])
                /\ activities' = addActivity(activities,
                                    [id |-> clock, type |-> "user", iconName |-> "user-plus",
                                     message |-> "New user " \o username \o " (" \o role
                                                     \o ") was created"])
        /\ UNCHANGED <<query, robots, zones, overview, clock, result, activeData, assistant,
                       remote, messages, isProcessing>>

\* PATCH /api/users/:id: the body is merged into the account of the caller,
\* or into any account for an admin or a manager; a body with a role is for
\* admins only.  Without a logged-in user the handler throws at currentUser.id
PatchUser ==
    \E c \in storage.sessions \cup {0}, userId \in 1..MaxUsers,
       role \in {Null, "admin", "viewer"} :
        LET currentUser == ReqUser(c)
            targetUser == IF ObjHas(storage.users, userId)
                          THEN ObjGet(storage.users, userId) ELSE [role |-> Null]
            forbidden ==
                \/ /\ userId # currentUser.id
                   /\ \/ currentUser.role # "admin" /\ currentUser.role # "manager"
                      \/ currentUser.role = "manager" /\ targetUser.role = "admin"
                \/ role # Null /\ currentUser.role # "admin"
        IN
        /\ Len(activities) < MaxLog
        /\ request' = [route |-> "PATCH /api/users/:id", actor |-> currentUser.role]
        /\ IF currentUser.id = 0 \/ forbidden \/ ~ObjHas(storage.users, userId)
           THEN UNCHANGED <<storage, activities>>
           ELSE /\ storage' = [storage EXCEPT !.users =
                                  ObjSet(storage.users, userId,
                                         IF role = Null THEN targetUser
                                         ELSE [targetUser EXCEPT !.role = role])]
                /\ activities' = addActivity(activities,
                                    [id |-> clock, type |-> "user", iconName |-> "user-cog",
                                     message |-> "User " \o targetUser.username
                                                     \o " was updated"])
        /\ UNCHANGED <<query, robots, zones, overview, clock, result, activeData, assistant,
                       remote, messages, isProcessing>>

\* DELETE /api/users/:id behind requirePermission(user:delete): another
\* user's account is deleted
DeleteUsers ==
    \E c \in storage.sessions \cup {0}, userId \in 1..MaxUsers :
        LET out == deleteUser(storage, activities, userId, clock) IN
        /\ Len(activities) < MaxLog
        /\ request' = [route |-> "DELETE /api/users/:id", actor |-> ReqUser(c).role]
        /\ IF \/ ReqUser(c).id = 0
              \/ ~\E i \in 1..Len(getUserPermissions(storage, ReqUser(c).id)) :
                      getUserPermissions(storage, ReqUser(c).id)[i] = "user:delete"
              \/ userId = ReqUser(c).id
              \/ ~ObjHas(storage.users, userId)
           THEN UNCHANGED <<storage, activities>>
           ELSE /\ storage' = out.storage
                /\ activities' = out.activities
        /\ UNCHANGED <<query, robots, zones, overview, clock, result, activeData, assistant,
                       remote, messages, isProcessing>>

\* POST /api/users/:id/permissions behind requireRole("admin"): an override
\* for an existing user
PostUserPermissions ==
    \E c \in storage.sessions \cup {0}, userId \in 1..MaxUsers,
       permissionId \in {3, 13}, hasPermission \in BOOLEAN :
        /\ Len(activities) < MaxLog
        /\ request' = [route |-> "POST /api/users/:id/permissions",
                       actor |-> ReqUser(c).role]
        /\ IF ReqUser(c).role # "admin" \/ ~ObjHas(storage.users, userId)
           THEN UNCHANGED <<storage, activities>>
           ELSE /\ storage' = setUserPermission(storage, userId, permissionId, hasPermission)
                /\ activities' = addActivity(activities,
                                    [id |-> clock, type |-> "user", iconName |-> "shield",
                                     message |-> "Permission " \o ToString(permissionId)
                                         \o (IF hasPermission THEN " granted to"
                                             ELSE " revoked from")
                                         \o " user " \o ToString(userId)])
        /\ UNCHANGED <<query, robots, zones, overview, clock, result, activeData, assistant,
                       remote, messages, isProcessing>>

SpecServer ==
    InitServer /\ [][Interval \/ Register \/ Login \/ Logout \/ PostUsers \/ PatchUser
                     \/ DeleteUsers \/ PostUserPermissions]_vars

(***************************************************************************)
(* Properties of the server (checked under SpecServer)                      *)
(***************************************************************************)

\* C23 as stated: after initialization and after any number of simulation
\* ticks, every zone's robotCount equals the number of robots whose zoneId is
\* that zone.
C23_CountsAllRobots ==
    \A k \in 1..Len(zones) :
        zones[k].robotCount = Len(RobotsInZone(robots, zones[k].id))

\* C23 amended: after initialization and after any number of simulation
\* ticks, every zone's robotCount equals the number of ACTIVE robots whose
\* zoneId is that zone.
C23_CountsActiveRobots ==
    \A k \in 1..Len(zones) :
        zones[k].robotCount =
            Cardinality({i \in 1..Len(robots) :
                            robots[i].zoneId = zones[k].id /\ robots[i].status = "active"})

\* a tick has carried the active robot out of Zone A, which keeps the idle one
C23_Witness ==
    /\ request.route = "interval"
    /\ robots[1].zoneId = "Zone C"
    /\ zones[1].robotCount = 0
    /\ zones[3].robotCount = 1
    /\ Len(RobotsInZone(robots, "Zone A")) = 1

\* C24: after any interleaving of broadcast ticks and audited operations, the
\* activity log holds at most 20 entries.
C24_LogAtMostTwenty == Len(activities) <= 20

\* C28: a non-admin actor never causes an account to hold the admin role:
\* every step after which an account that was not an admin's is one is a
\* request of an admin.
C28_OnlyAdminsMakeAdmins ==
    [][ LET Admins(st) == {st.users[i][1] : i \in {j \in 1..Len(st.users) :
                                                      st.users[j][2].role = "admin"}}
        IN  Admins(storage') \subseteq Admins(storage) \/ request'.actor = "admin" ]_vars

(***************************************************************************)
(* MemStorage's permission methods called directly                          *)
(***************************************************************************)

\* the store after the registration of a viewer, with the fleet's data
InitStorage ==
    LET NoResult ==
            [handler |-> "", thrown |-> FALSE, message |-> <<>>,
             response |-> [title |-> <<>>, data |-> NoData, type |-> "", metadata |-> NoMeta],
             snapshot |-> <<>>]
    IN
    /\ query = <<>>
    /\ \E s \in Snapshots :
        /\ s.robots = FleetRobots
        /\ robots = s.robots
        /\ zones = s.zones
        /\ activities = s.activities
        /\ overview = s.overview
    /\ clock = 0
    /\ result = Returned(NoResult)
    /\ activeData = <<>>
    /\ assistant = Greeting
    /\ remote = NotAsked
    /\ messages = <<[role |-> "assistant", content |-> Greeting]>>
    /\ isProcessing = FALSE
    /\ storage = createUser(FreshStorage, [username |-> "eve", role |-> "viewer"])
    /\ request = [route |-> "", actor |-> ""]

\* storage.setUserPermission(userId, permissionId, hasPermission)
SetUserPermission ==
    \E userId \in 1..MaxUsers, permissionId \in {3, 13}, hasPermission \in BOOLEAN :
        /\ storage' = setUserPermission(storage, userId, permissionId, hasPermission)
        /\ request' = [route |-> "setUserPermission", actor |-> "storage"]
        /\ UNCHANGED <<query, robots, zones, activities, overview, clock, result, activeData,
                       assistant, remote, messages, isProcessing>>

\* storage.assignRolePermission(role, permissionId): the permission joins the
\* role's set, which is created for a role without one
AssignRolePermission ==
    \E role \in {"viewer", "guest"} : \E permissionId \in (IF role = "guest" THEN {3} ELSE {3, 13}) :
        LET rolePerms == IF ObjHas(storage.rolePermissionsList, role)
                         THEN ObjGet(storage.rolePermissionsList, role) ELSE <<>>
        IN
        /\ storage' = [storage EXCEPT !.rolePermissionsList =
                          ObjSet(storage.rolePermissionsList, role,
                                 IF \E i \in 1..Len(rolePerms) : rolePerms[i] = permissionId
                                 THEN rolePerms ELSE Append(rolePerms, permissionId))]
        /\ request' = [route |-> "assignRolePermission", actor |-> "storage"]
        /\ UNCHANGED <<query, robots, zones, activities, overview, clock, result, activeData,
                       assistant, remote, messages, isProcessing>>

\* storage.removeRolePermission(role, permissionId): the permission leaves the
\* set of a role that has one
RemoveRolePermission ==
    \E role \in {"viewer", "guest"} : \E permissionId \in (IF role = "guest" THEN {3} ELSE {3, 13}) :
        LET rolePerms == ObjGet(storage.rolePermissionsList, role) IN
        /\ storage' = IF ~ObjHas(storage.rolePermissionsList, role) THEN storage
                      ELSE [storage EXCEPT !.rolePermissionsList =
                               ObjSet(storage.rolePermissionsList, role,
                                      Filter(rolePerms, {i \in 1..Len(rolePerms) :
                                                            rolePerms[i] # permissionId}))]
        /\ request' = [route |-> "removeRolePermission", actor |-> "storage"]
        /\ UNCHANGED <<query, robots, zones, activities, overview, clock, result, activeData,
                       assistant, remote, messages, isProcessing>>

\* storage.deleteUser(id)
DeleteUser ==
    \E id \in 1..MaxUsers :
        LET out == deleteUser(storage, activities, id, clock) IN
        /\ storage' = out.storage
        /\ activities' = out.activities
        /\ request' = [route |-> "deleteUser", actor |-> "storage"]
        /\ UNCHANGED <<query, robots, zones, overview, clock, result, activeData, assistant,
                       remote, messages, isProcessing>>

SpecStorage ==
    InitStorage /\ [][SetUserPermission \/ AssignRolePermission \/ RemoveRolePermission
                      \/ DeleteUser]_vars

(***************************************************************************)
(* Properties of the permissions (checked under SpecStorage)                *)
(***************************************************************************)

\* the names getUserPermissions returns for the user
Effective(userId) ==
    LET names == getUserPermissions(storage, userId)
    IN  {names[i] : i \in 1..Len(names)}

\* C29: getUserPermissions(u) for an existing user u contains a permission
\* exactly when u's override for it is true, or u has no override for it and
\* u's role grants it; for a deleted or unknown user it is empty.
C29_EffectivePermissions ==
    \A u \in 1..(MaxUsers + 1) :
        IF \E i \in 1..Len(storage.users) : storage.users[i][1] = u
        THEN \A p \in 1..Len(storage.permissionsList) :
                LET id == storage.permissionsList[p][1]
                    user == storage.users[CHOOSE i \in 1..Len(storage.users) :
                                              storage.users[i][1] = u][2]
                    Overridden(b) ==
                        \E i \in 1..Len(storage.userPermissionsList) :
                            /\ storage.userPermissionsList[i][1] = u
                            /\ \E j \in 1..Len(storage.userPermissionsList[i][2]) :
                                   storage.userPermissionsList[i][2][j] = <<id, b>>
                    RoleGrants ==
                        \E i \in 1..Len(storage.rolePermissionsList) :
                            /\ storage.rolePermissionsList[i][1] = user.role
                            /\ \E j \in 1..Len(storage.rolePermissionsList[i][2]) :
                                   storage.rolePermissionsList[i][2][j] = id
                IN  storage.permissionsList[p][2] \in Effective(u)
                        <=> \/ Overridden(TRUE)
                            \/ ~Overridden(TRUE) /\ ~Overridden(FALSE) /\ RoleGrants
        ELSE getUserPermissions(storage, u) = <<>>

\* the viewer is denied the permission of the role and granted another one
C29_Witness ==
    /\ request.route = "setUserPermission"
    /\ ObjHas(storage.users, 2)
    /\ ObjHas(storage.userPermissionsList, 2)
    /\ ObjGet(storage.userPermissionsList, 2) = << <<13, FALSE>>, <<3, TRUE>> >>
    /\ ObjGet(storage.rolePermissionsList, "viewer") = <<13>>
    /\ getUserPermissions(storage, 2) = <<"user:create">>

\* a deleted user is given an override afterwards and still has no permission
C29_DeletedWitness ==
    /\ ~ObjHas(storage.users, 2)
    /\ ObjHas(storage.userPermissionsList, 2)
    /\ ObjGet(storage.userPermissionsList, 2) = << <<3, TRUE>> >>
    /\ getUserPermissions(storage, 2) = <<>>

====
